---- MODULE Spec2Model ----
(***************************************************************************)
(* Model of package fm (src/fm.go), the Go side of the Foundation Models   *)
(* bridge, together with the session wrapper of the Swift shim            *)
(* (src/FoundationModelsShim.swift).                                       *)
(*                                                                         *)
(* Strings are represented by their length in bytes: the Go code only      *)
(* ever measures a prompt, a response or the instructions (len(text)) and  *)
(* forwards them.  A *Session is a slot 1..MaxSessions; its native handle  *)
(* is the wrapper object that CreateSession retained.                      *)
(* The host thread is thread 0; the helper goroutines started by           *)
(* RespondWithContext / RespondWithToolsContext are threads 1..MaxHelpers, *)
(* and so is the Task that the shim's RespondWithStreaming starts.         *)
(***************************************************************************)
EXTENDS Integers, Sequences, FiniteSets, TLC

\* ---------------------------------------------------------------- constants
MAX_CONTEXT_SIZE == 4096

\* FoundationModelsShim.swift:417  the length of "Error: "
ErrorPrefixLen == 7

\* ------------------------------------------------------------------- bounds
MaxSessions == 2
MaxConstructed == 1
MaxHelpers == 1
MaxNativeCalls == 2
MaxToolOps == 1
MaxRegistrations == 3
MaxCallbackToolOps == 2
MaxCallbacks == 1
MaxSimulatedSessions == 2
MaxLocates == 2

\* byte lengths of the prompts, responses and instructions that are tried
PromptLens == {7, 16384}
ResponseLens == {9}
InstrLens == {9, 16400}

ToolNames == {"calculate", "weather"}
Impls == {1, 2}

NULL == 0
NoTool == 0
NoSession == [built |-> FALSE, tools |-> <<>>]
Host == 0
Helpers == 1..MaxHelpers
Threads == 0..MaxHelpers
Slots == 1..MaxSessions

\* the order in which initializeShim resolves the shim's entry points
SymbolOrder ==
  << "CreateSession", "CreateSessionWithInstructions", "ReleaseSession",
     "CheckModelAvailability", "RespondSync", "RespondWithStructuredOutput",
     "RespondWithTools", "RespondWithOptions", "GetModelInfo", "RegisterTool",
     "ClearTools", "SetToolCallback" >>

EntryPoints == {SymbolOrder[i] : i \in 1..Len(SymbolOrder)}

\* the items whose loading can fail, in the order initializeShim loads them
LoadOrder == <<"libFMShim.dylib">> \o SymbolOrder \o <<"libc", "free">>

LoadItems == {LoadOrder[i] : i \in 1..Len(LoadOrder)}

RespondOps ==
  {"Respond", "RespondWithOptions", "RespondWithStructuredOutput", "RespondWithTools"}

VARIABLES
  boot,                \* "boot" before package init has run, "ready" after
  shimInitialized,     \* fm.go:58
  shimInitError,       \* fm.go:59, "nil" or the item that failed to load
  resolved,            \* the entry-point variables (fm.go:37-52) that are set
  nSessions,           \* number of *Session objects constructed so far
  ptr,                 \* Session.ptr, NULL or the native handle
  contextSize,         \* Session.contextSize
  maxContextSize,      \* Session.maxContextSize
  systemInstructions,  \* Session.systemInstructions (byte length, 0 is "")
  registeredTools,     \* Session.registeredTools: name -> implementation
  toolRegistry,        \* fm.go:55, process-wide: name -> implementation
  frame,               \* per thread: the call it is executing and where
  chan,                \* resultChan of each helper: EmptyChan or the result
  ctxDone,             \* the context of the host's current call is done
  abandoned,           \* running helpers whose caller returned ctx.Err()
  cancelledOn,         \* sessions on which a call has returned ctx.Err()
  wrapperLive,         \* native handles whose SessionWrapper is retained
  relCount,            \* per handle: invocations of native ReleaseSession
  wTools,              \* SessionWrapper.tools, a list of tool names
  wSession,            \* SessionWrapper._session: NoSession or the tool list
                       \* the cached LanguageModelSession was built with
  swiftRegisteredTools,\* the shim's global registeredTools (names)
  setToolCallbackCalls,\* invocations of native SetToolCallback
  toolOps,             \* number of RegisterTool / ClearTools calls made
  nativeStarted,       \* number of native respond calls started
  callLog,             \* per session: <<prompt, response>> of each call that
                       \* returned a response
  crashed,             \* the process died in a use of a released handle
  files,               \* the library files on disk and the room to write one
  located,             \* the calls of findOrExtractShimLibrary so far
  touched              \* the files changed since the last of those calls

vars ==
  << boot, shimInitialized, shimInitError, resolved, nSessions, ptr, contextSize,
     maxContextSize, systemInstructions, registeredTools, toolRegistry, frame,
     chan, ctxDone, abandoned, cancelledOn, wrapperLive, relCount, wTools, wSession,
     swiftRegisteredTools, setToolCallbackCalls, toolOps, nativeStarted,
     callLog, crashed, files, located, touched >>

initVars == <<boot, shimInitialized, shimInitError, resolved, files, located, touched>>

goSessionVars ==
  <<nSessions, ptr, contextSize, maxContextSize, systemInstructions, registeredTools>>

threadVars == <<chan, ctxDone, abandoned, cancelledOn>>

nativeVars ==
  <<wrapperLive, relCount, wTools, wSession, swiftRegisteredTools>>

\* ------------------------------------------------------------ pure functions

\* an estimate that rounds up instead of down
estimateTokensRoundUp(len) == (len + 3) \div 4

\* fm.go:379  len(text) / 4, Go integer division
estimateTokens(len) == len \div 4

\* a validation that also turns down the prompt that exactly fills the window
validateContextSizeStrict(cs, max, len) == ~(cs + estimateTokens(len) >= max)

\* fm.go:400  TRUE when validateContextSize returns nil
validateContextSize(cs, max, len) == ~(cs + estimateTokens(len) > max)

\* the result a call hands back: kind, and the text's length for a response
Ret(kind, len) == [kind |-> kind, len |-> len]

NoRet == Ret("none", 0)

EmptyChan == Ret("empty", 0)

\* the arguments and the result of a ValidateToolArguments call
Validation(args, argDefs, err) == [args |-> args, argDefs |-> argDefs, err |-> err]

NoValidation ==
  Validation([n \in {"a", "b"} |-> [t |-> "absent", s |-> "", len |-> 0, half |-> 0,
                                    big |-> FALSE]],
             <<>>, [kind |-> "nil", name |-> "", why |-> ""])

\* a tool callback: what it was called with, the registry it found, what
\* the tool's Execute was going to return, and what executeTool did
Callback(name, argsJSON, registry, out, reply) ==
  [name |-> name, argsJSON |-> argsJSON, registry |-> registry, out |-> out,
   reply |-> reply]

NoCallback ==
  Callback("none", "", [n \in {"calculate", "weather"} |-> 0],
           [result |-> [content |-> <<>>, error |-> <<>>], err |-> <<>>],
           [tool |-> 0, executed |-> 0,
            args |-> [n \in {"arguments"} |->
                       [t |-> "absent", s |-> "", len |-> 0, half |-> 0, big |-> FALSE]],
            json |-> <<>>])

\* a buffer given up: which it is, what allocated it and what freed it
Free(buf, by, with) == [buf |-> buf, by |-> by, with |-> with]

IdleFrame ==
  [pc |-> "idle", op |-> "none", sess |-> 0, plen |-> 0, opts |-> FALSE,
   hnd |-> NULL, tmp |-> 0, rlen |-> 0, ret |-> NoRet, helper |-> 0,
   ctxKind |-> "none", first |-> "none", name |-> "none", impl |-> NoTool,
   calls |-> {}, val |-> NoValidation, code |-> 0, cb |-> NoCallback, ncb |-> 0,
   frees |-> {}, got |-> <<>>, chunks |-> <<>>]

\* the frame of a call of the host thread that is returning ret, after
\* having invoked the native entry points calls
Returned(op, s, plen, opts, ret, calls) ==
  [IdleFrame EXCEPT !.pc = "done", !.op = op, !.sess = s, !.plen = plen,
                    !.opts = opts, !.ret = ret, !.calls = calls]

HostFree == boot = "ready" /\ ~crashed /\ frame[Host].pc = "idle"

Created == 1..nSessions

\* threads that are inside a native respond call on handle h
InFlight(h) ==
  {t \in Threads : frame[t].pc \in {"native", "await"} /\ frame[t].hnd = h}

\* fm.go:425  GetRemainingContextTokens
GetRemainingContextTokens(s) == maxContextSize[s] - contextSize[s]

\* ------------------------------------------------------------ library locator
\* the first element of a non-empty set of indices, as a range loop meets it
FirstOf(I) == CHOOSE i \in I : \A j \in I : i <= j

\* fm.go:538-543  searchPaths
searchPaths ==
  <<"./libFMShim.dylib", "libFMShim.dylib", "./lib/libFMShim.dylib",
    "./build/libFMShim.dylib">>

\* fm.go:558-559  filepath.Join(os.TempDir(), "libFMShim_embedded.dylib")
TempPath == "TempDir/libFMShim_embedded.dylib"

\* the file a search path names: the first two name the same file of the
\* working directory
FileOf(path) == IF path = "libFMShim.dylib" THEN "./libFMShim.dylib" ELSE path

SearchedFiles == {FileOf(searchPaths[i]) : i \in 1..Len(searchPaths)}

\* the state of the disk: the searched files that exist, the file at TempPath
\* ("absent", "whole", or "partial" after a write that was cut short), and
\* what os.WriteFile at TempPath meets: "enough" room, "none" (the file
\* cannot be created) or "short" (the file is created and the write fails)
Files(present, temp, room) == [present |-> present, temp |-> temp, room |-> room]

\* os.Stat(path) returns no error
Stat(fs, path) == IF path = TempPath THEN fs.temp # "absent" ELSE FileOf(path) \in fs.present

\* what a call of the locator returned and did: the path, whether it wrote
\* to the disk, and the disk after it
Found(path, wrote, fs) == [path |-> path, wrote |-> wrote, files |-> fs]

\* fm.go:556-575  extractEmbeddedShimLibrary
extractEmbeddedShimLibrary(fs) ==
  IF Stat(fs, TempPath) THEN Found(TempPath, FALSE, fs)
  ELSE CASE fs.room = "enough" -> Found(TempPath, TRUE, Files(fs.present, "whole", fs.room))
         [] fs.room = "short" -> Found("", TRUE, Files(fs.present, "partial", fs.room))
         [] fs.room = "none" -> Found("", FALSE, fs)

\* fm.go:536-553  findOrExtractShimLibrary
findOrExtractShimLibrary(fs) ==
  LET hits == {i \in 1..Len(searchPaths) : Stat(fs, searchPaths[i])} IN
  IF hits # {} THEN Found(searchPaths[FirstOf(hits)], FALSE, fs)
  ELSE extractEmbeddedShimLibrary(fs)

\* the record kept of a call: the disk before it, what it returned, whether
\* it wrote, and whether the disk had changed since the call before it
Call(before, found, changed) ==
  [before |-> before, path |-> found.path, wrote |-> found.wrote, changed |-> changed]

\* fm.go:79-84: the items whose loading can fail first, given what the
\* locator returned: the empty path names no library (Dlopen fails, or gives
\* a handle that has none of the symbols), a partial file is no library
MayFail(found) ==
  IF found.path = "" THEN {"libFMShim.dylib", "CreateSession"}
  ELSE IF found.path = TempPath /\ found.files.temp = "partial" THEN {"libFMShim.dylib"}
  ELSE LoadItems \cup {"none"}

\* ---------------------------------------------------------------------- Init
Init ==
  /\ boot = "boot"
  /\ shimInitialized = FALSE
  /\ shimInitError = "nil"
  /\ resolved = {}
  /\ nSessions = 0
  /\ ptr = [s \in Slots |-> NULL]
  /\ contextSize = [s \in Slots |-> 0]
  /\ maxContextSize = [s \in Slots |-> 0]
  /\ systemInstructions = [s \in Slots |-> 0]
  /\ registeredTools = [s \in Slots |-> [n \in ToolNames |-> NoTool]]
  /\ toolRegistry = [n \in ToolNames |-> NoTool]
  /\ frame = [t \in Threads |-> IdleFrame]
  /\ chan = [h \in Helpers |-> EmptyChan]
  /\ ctxDone = FALSE
  /\ abandoned = {}
  /\ cancelledOn = {}
  /\ wrapperLive = {}
  /\ relCount = [h \in Slots |-> 0]
  /\ wTools = [h \in Slots |-> <<>>]
  /\ wSession = [h \in Slots |-> NoSession]
  /\ swiftRegisteredTools = {}
  /\ setToolCallbackCalls = 0
  /\ toolOps = 0
  /\ nativeStarted = 0
  /\ callLog = [s \in Slots |-> <<>>]
  /\ crashed = FALSE
  /\ files = Files({}, "absent", "enough")
  /\ located = <<>>
  /\ touched = FALSE

\* ------------------------------------------------------------ initialization

\* position of an item in LoadOrder; Len(LoadOrder) + 1 for "none"
LoadPos(item) ==
  IF item \in LoadItems
  THEN CHOOSE i \in 1..Len(LoadOrder) : LoadOrder[i] = item
  ELSE Len(LoadOrder) + 1

\* an initialization that goes on without libc's free
initializeShimWithoutFree(fail) ==
  /\ boot = "boot"
  /\ boot' = "ready"
  /\ fail \in MayFail(findOrExtractShimLibrary(files))
  /\ files' = findOrExtractShimLibrary(files).files
  /\ located' = Append(located, Call(files, findOrExtractShimLibrary(files), touched))
  /\ touched' = FALSE
  /\ resolved' = {LoadOrder[i] : i \in 1..(LoadPos(fail) - 1)}
  /\ IF fail \in {"none", "free"}
     THEN /\ setToolCallbackCalls' = setToolCallbackCalls + 1
          /\ shimInitError' = "nil"
          /\ shimInitialized' = TRUE
     ELSE /\ shimInitError' = fail
          /\ shimInitialized' = FALSE
          /\ UNCHANGED setToolCallbackCalls
  /\ UNCHANGED <<goSessionVars, toolRegistry, frame, threadVars, nativeVars, toolOps,
                 nativeStarted, callLog, crashed>>

\* an initialization that hands over the callback as soon as SetToolCallback
\* is resolved, before libc and free are loaded
initializeShimCallbackEarly(fail) ==
  /\ boot = "boot"
  /\ boot' = "ready"
  /\ fail \in MayFail(findOrExtractShimLibrary(files))
  /\ files' = findOrExtractShimLibrary(files).files
  /\ located' = Append(located, Call(files, findOrExtractShimLibrary(files), touched))
  /\ touched' = FALSE
  /\ resolved' = {LoadOrder[i] : i \in 1..(LoadPos(fail) - 1)}
  /\ setToolCallbackCalls' =
        IF "SetToolCallback" \in resolved' THEN setToolCallbackCalls + 1
        ELSE setToolCallbackCalls
  /\ IF fail = "none"
     THEN /\ shimInitError' = "nil"
          /\ shimInitialized' = TRUE
     ELSE /\ shimInitError' = fail
          /\ shimInitialized' = FALSE
  /\ UNCHANGED <<goSessionVars, toolRegistry, frame, threadVars, nativeVars, toolOps,
                 nativeStarted, callLog, crashed>>

\* fm.go:67-162  init and initializeShim, which begins by locating the
\* library (fm.go:79); fail is the first item whose Dlopen/Dlsym returns an
\* error, "none" when all of them load.  Only when
\* nothing fails does setupToolCallback (fm.go:520-533) hand the callback
\* to the shim's SetToolCallback.
initializeShim(fail) ==
  /\ boot = "boot"
  /\ boot' = "ready"
  /\ fail \in MayFail(findOrExtractShimLibrary(files))
  /\ files' = findOrExtractShimLibrary(files).files
  /\ located' = Append(located, Call(files, findOrExtractShimLibrary(files), touched))
  /\ touched' = FALSE
  /\ resolved' = {LoadOrder[i] : i \in 1..(LoadPos(fail) - 1)}
  /\ IF fail = "none"
     THEN /\ setToolCallbackCalls' = setToolCallbackCalls + 1
          /\ shimInitError' = "nil"
          /\ shimInitialized' = TRUE
     ELSE /\ shimInitError' = fail
          /\ shimInitialized' = FALSE
          /\ UNCHANGED setToolCallbackCalls
  /\ UNCHANGED <<goSessionVars, toolRegistry, frame, threadVars, nativeVars, toolOps,
                 nativeStarted, callLog, crashed>>

InitializeShim == \E fail \in LoadItems \cup {"none"} : initializeShim(fail)

\* a further call of findOrExtractShimLibrary in the package: what a later
\* start of the program does first
Locate ==
  /\ HostFree
  /\ Len(located) < MaxLocates
  /\ files' = findOrExtractShimLibrary(files).files
  /\ located' = Append(located, Call(files, findOrExtractShimLibrary(files), touched))
  /\ touched' = FALSE
  /\ frame' = [frame EXCEPT ![Host] =
        Returned("findOrExtractShimLibrary", 0, 0, FALSE, NoRet, {})]
  /\ UNCHANGED <<boot, shimInitialized, shimInitError, resolved, goSessionVars,
                 toolRegistry, threadVars, nativeVars, setToolCallbackCalls, toolOps,
                 nativeStarted, callLog, crashed>>

\* somebody else changes the disk to fs, between two calls of the locator
FsChange(fs) ==
  /\ boot = "boot" \/ HostFree
  /\ Len(located) < MaxLocates
  /\ ~touched
  /\ fs # files
  /\ files' = fs
  /\ touched' = TRUE
  /\ UNCHANGED <<boot, shimInitialized, shimInitError, resolved, located,
                 goSessionVars, toolRegistry, frame, threadVars, nativeVars,
                 setToolCallbackCalls, toolOps, nativeStarted, callLog, crashed>>

\* the host's call has handed its result to the caller
HostReturn ==
  /\ ~crashed
  /\ frame[Host].pc = "done"
  /\ frame' = [frame EXCEPT ![Host] = IdleFrame]
  /\ UNCHANGED <<initVars, goSessionVars, toolRegistry, threadVars, nativeVars,
                 setToolCallbackCalls, toolOps, nativeStarted, callLog, crashed>>

\* ----------------------------------------------------------- session creation

\* fm.go:306-311 and 333-339: the Session literal
MakeSession(s, h, ilen, cs) ==
  /\ nSessions' = s
  /\ ptr' = [ptr EXCEPT ![s] = h]
  /\ contextSize' = [contextSize EXCEPT ![s] = cs]
  /\ maxContextSize' = [maxContextSize EXCEPT ![s] = MAX_CONTEXT_SIZE]
  /\ systemInstructions' = [systemInstructions EXCEPT ![s] = ilen]
  /\ registeredTools' = [registeredTools EXCEPT ![s] = [n \in ToolNames |-> NoTool]]

\* FoundationModelsShim.swift:49-62  CreateSession[WithInstructions]:
\* a new retained SessionWrapper with no tools and no cached session
NativeCreate(h) ==
  /\ wrapperLive' = wrapperLive \cup {h}
  /\ wTools' = [wTools EXCEPT ![h] = <<>>]
  /\ wSession' = [wSession EXCEPT ![h] = NoSession]

\* fm.go:295-312  NewSession; ok is whether the native create returns non-null
NewSession(ok) ==
  /\ HostFree
  /\ IF ~shimInitialized
     THEN /\ frame' = [frame EXCEPT ![Host] =
                Returned("NewSession", 0, 0, FALSE, Ret("nil", 0), {})]
          /\ UNCHANGED <<goSessionVars, nativeVars>>
     ELSE IF ok
     THEN /\ nSessions < MaxSessions
          /\ MakeSession(nSessions + 1, nSessions + 1, 0, 0)
          /\ NativeCreate(nSessions + 1)
          /\ UNCHANGED <<relCount, swiftRegisteredTools>>
          /\ frame' = [frame EXCEPT ![Host] =
                Returned("NewSession", 0, 0, FALSE, Ret("session", nSessions + 1),
                         {"CreateSession"})]
     ELSE /\ frame' = [frame EXCEPT ![Host] =
                Returned("NewSession", 0, 0, FALSE, Ret("nil", 0), {"CreateSession"})]
          /\ UNCHANGED <<goSessionVars, nativeVars>>
  /\ UNCHANGED <<initVars, toolRegistry, threadVars, setToolCallbackCalls, toolOps,
                 nativeStarted, callLog, crashed>>

\* fm.go:315-340  NewSessionWithInstructions
NewSessionWithInstructions(ilen, ok) ==
  /\ HostFree
  /\ IF ~shimInitialized
     THEN /\ frame' = [frame EXCEPT ![Host] =
                Returned("NewSessionWithInstructions", 0, ilen, FALSE, Ret("nil", 0), {})]
          /\ UNCHANGED <<goSessionVars, nativeVars>>
     ELSE IF ok
     THEN /\ nSessions < MaxSessions
          /\ MakeSession(nSessions + 1, nSessions + 1, ilen, estimateTokens(ilen))
          /\ NativeCreate(nSessions + 1)
          /\ UNCHANGED <<relCount, swiftRegisteredTools>>
          /\ frame' = [frame EXCEPT ![Host] =
                Returned("NewSessionWithInstructions", 0, ilen, FALSE,
                         Ret("session", nSessions + 1), {"CreateSessionWithInstructions"})]
     ELSE /\ frame' = [frame EXCEPT ![Host] =
                Returned("NewSessionWithInstructions", 0, ilen, FALSE, Ret("nil", 0),
                         {"CreateSessionWithInstructions"})]
          /\ UNCHANGED <<goSessionVars, nativeVars>>
  /\ UNCHANGED <<initVars, toolRegistry, threadVars, setToolCallbackCalls, toolOps,
                 nativeStarted, callLog, crashed>>

\* ------------------------------------------------- the respond family's body
\* Respond, RespondWithOptions, RespondWithStructuredOutput and
\* RespondWithTools share one shape (fm.go:661-821).  A thread runs it in the
\* steps below; the steps are the points at which another goroutine can
\* observe or change the session between two of its memory accesses.

\* the native entry point a respond call invokes (fm.go:684, 690, 726, 761, 799)
Entry(op, opts) ==
  CASE op = "Respond" /\ ~opts -> "RespondSync"
    [] op = "Respond" /\ opts -> "RespondWithOptions"
    [] op = "RespondWithOptions" -> "RespondWithOptions"
    [] op = "RespondWithStructuredOutput" -> "RespondWithStructuredOutput"
    [] op = "RespondWithTools" -> "RespondWithTools"

\* the call of thread t returns ret: the host thread has its result, a helper
\* goes on to send ret on its result channel
Finish(t, f, ret) ==
  [f EXCEPT !.pc = IF t = Host THEN "done" ELSE "send",
            !.hnd = NULL, !.tmp = 0, !.rlen = 0, !.helper = 0, !.ret = ret]

\* the pre-flight validation without the nil-pointer check before it
CheckBodyNoNilCheck(t, f) ==
  /\ frame' = [frame EXCEPT ![t] =
        IF ~validateContextSize(contextSize[f.sess], maxContextSize[f.sess], f.plen)
        THEN Finish(t, f, Ret("err_context", 0))
        ELSE [f EXCEPT !.pc = "checked"]]
  /\ UNCHANGED <<initVars, goSessionVars, toolRegistry, threadVars, nativeVars,
                 setToolCallbackCalls, toolOps, nativeStarted, callLog, crashed>>

\* fm.go:662-669 (and 715-722, 750-757, 785-792): the nil-pointer check and
\* the pre-flight validation of the call described by frame f
CheckBody(t, f) ==
  /\ frame' = [frame EXCEPT ![t] =
        IF ptr[f.sess] = NULL
        THEN Finish(t, f, Ret("err_invalid", 0))
        ELSE IF ~validateContextSize(contextSize[f.sess], maxContextSize[f.sess], f.plen)
        THEN Finish(t, f, Ret("err_context", 0))
        ELSE [f EXCEPT !.pc = "checked"]]
  /\ UNCHANGED <<initVars, goSessionVars, toolRegistry, threadVars, nativeVars,
                 setToolCallbackCalls, toolOps, nativeStarted, callLog, crashed>>

\* a respond-family call of the host thread begins
HostRespond(op, s, plen, opts) ==
  /\ HostFree
  /\ s \in Created
  /\ CheckBody(Host, [IdleFrame EXCEPT !.op = op, !.sess = s, !.plen = plen, !.opts = opts])

\* fm.go:844-867, 900-903: the helper goroutine begins its respond call
HelperStart(h) ==
  /\ ~crashed
  /\ frame[h].pc = "call"
  /\ CheckBody(h, frame[h])

\* fm.go:690-694: purego.SyscallN(entry, uintptr(s.ptr), cPrompt) is issued;
\* s.ptr is read again here.  A null pointer makes the shim dereference null;
\* a handle that ReleaseSession already gave up is a use after release, which
\* may kill the process or go unnoticed.
NativeStart(t, dies) ==
  /\ ~crashed
  /\ frame[t].pc = "checked"
  /\ nativeStarted < MaxNativeCalls
  /\ nativeStarted' = nativeStarted + 1
  /\ LET h == ptr[frame[t].sess]
         e == Entry(frame[t].op, frame[t].opts)
     IN
       IF h = NULL \/ (h \notin wrapperLive /\ dies)
       THEN /\ crashed' = TRUE
            /\ frame' = [frame EXCEPT ![t].hnd = h, ![t].calls = {e}]
       ELSE /\ crashed' = FALSE
            /\ frame' = [frame EXCEPT ![t].pc = "native", ![t].hnd = h, ![t].calls = {e}]
  /\ UNCHANGED <<initVars, goSessionVars, toolRegistry, threadVars, nativeVars,
                 setToolCallbackCalls, toolOps, callLog>>

\* FoundationModelsShim.swift:18-42: inside the call the shim reads
\* wrapper.session, which builds and caches a session from the wrapper's
\* current tools when none is cached
NativeGetSession(t) ==
  /\ ~crashed
  /\ frame[t].pc = "native"
  /\ frame' = [frame EXCEPT ![t].pc = "await"]
  /\ LET h == frame[t].hnd IN
       wSession' = [wSession EXCEPT ![h] =
         IF wSession[h].built THEN wSession[h]
         ELSE [built |-> TRUE, tools |-> wTools[h]]]
  /\ UNCHANGED <<initVars, goSessionVars, toolRegistry, threadVars, wrapperLive,
                 relCount, wTools, swiftRegisteredTools, setToolCallbackCalls,
                 toolOps, nativeStarted, callLog, crashed>>

\* FoundationModelsShim.swift:18-25: the getter of wrapper.session finds no
\* cached session and reads the wrapper's tools to build one from them, in
\* the Task of a native respond call; nothing keeps RegisterTool and
\* ClearTools, called on another thread, from the wrapper meanwhile
NativeSessionBuild(t) ==
  /\ ~crashed
  /\ frame[t].pc = "native"
  /\ ~wSession[frame[t].hnd].built
  /\ frame' = [frame EXCEPT ![t].pc = "building", ![t].got = wTools[frame[t].hnd]]
  /\ UNCHANGED <<initVars, goSessionVars, toolRegistry, threadVars, nativeVars,
                 setToolCallbackCalls, toolOps, nativeStarted, callLog, crashed>>

\* FoundationModelsShim.swift:40-41: the getter stores the session it built
\* in _session and returns it
NativeSessionStore(t) ==
  /\ ~crashed
  /\ frame[t].pc = "building"
  /\ frame' = [frame EXCEPT ![t].pc = "await", ![t].got = <<>>]
  /\ wSession' = [wSession EXCEPT ![frame[t].hnd] =
        [built |-> TRUE, tools |-> frame[t].got]]
  /\ UNCHANGED <<initVars, goSessionVars, toolRegistry, threadVars, wrapperLive,
                 relCount, wTools, swiftRegisteredTools, setToolCallbackCalls,
                 toolOps, nativeStarted, callLog, crashed>>

NativeReturnFreesNull(t, r) ==
  /\ ~crashed
  /\ frame[t].pc = "await"
  /\ frame' = [frame EXCEPT ![t] =
       IF r = -1
       THEN Finish(t, [frame[t] EXCEPT !.calls = @ \cup {"free"}], Ret("err_noresponse", 0))
       ELSE [frame[t] EXCEPT !.pc = "storePrompt", !.rlen = r,
                             !.tmp = contextSize[frame[t].sess],
                             !.calls = @ \cup {"free"},
                             !.frees = @ \cup {Free("response", "strdup", "free")}]]
  /\ UNCHANGED <<initVars, goSessionVars, toolRegistry, threadVars, nativeVars,
                 setToolCallbackCalls, toolOps, nativeStarted, callLog, crashed>>

\* fm.go:696-707: the native call returns.  r = -1 is a null result pointer;
\* otherwise r is the response's length: it is copied, freed with libc's
\* free, and addToContext(prompt) reads s.contextSize.
NativeReturn(t, r) ==
  /\ ~crashed
  /\ frame[t].pc = "await"
  /\ frame' = [frame EXCEPT ![t] =
       IF r = -1
       THEN Finish(t, frame[t], Ret("err_noresponse", 0))
       ELSE [frame[t] EXCEPT !.pc = "storePrompt", !.rlen = r,
                             !.tmp = contextSize[frame[t].sess],
                             !.calls = @ \cup {"free"},
                             !.frees = @ \cup {Free("response", "strdup", "free")}]]
  /\ UNCHANGED <<initVars, goSessionVars, toolRegistry, threadVars, nativeVars,
                 setToolCallbackCalls, toolOps, nativeStarted, callLog, crashed>>

\* fm.go:411 in addToContext(prompt): the sum is written back
StorePrompt(t) ==
  /\ ~crashed
  /\ frame[t].pc = "storePrompt"
  /\ contextSize' = [contextSize EXCEPT ![frame[t].sess] =
        frame[t].tmp + estimateTokens(frame[t].plen)]
  /\ frame' = [frame EXCEPT ![t].pc = "loadResponse", ![t].tmp = 0]
  /\ UNCHANGED <<initVars, nSessions, ptr, maxContextSize, systemInstructions,
                 registeredTools, toolRegistry, threadVars, nativeVars,
                 setToolCallbackCalls, toolOps, nativeStarted, callLog, crashed>>

\* fm.go:411 in addToContext(response): s.contextSize is read
LoadResponse(t) ==
  /\ ~crashed
  /\ frame[t].pc = "loadResponse"
  /\ frame' = [frame EXCEPT ![t].pc = "storeResponse",
                             ![t].tmp = contextSize[frame[t].sess]]
  /\ UNCHANGED <<initVars, goSessionVars, toolRegistry, threadVars, nativeVars,
                 setToolCallbackCalls, toolOps, nativeStarted, callLog, crashed>>

\* a call that leaves the session alone once its caller has given up on it
StoreResponseUnlessAbandoned(t) ==
  /\ ~crashed
  /\ frame[t].pc = "storeResponse"
  /\ contextSize' = [contextSize EXCEPT ![frame[t].sess] =
        IF t \in abandoned THEN @ ELSE frame[t].tmp + estimateTokens(frame[t].rlen)]
  /\ callLog' = [callLog EXCEPT ![frame[t].sess] =
        Append(@, <<frame[t].plen, frame[t].rlen>>)]
  /\ frame' = [frame EXCEPT ![t] = Finish(t, frame[t], Ret("response", frame[t].rlen))]
  /\ UNCHANGED <<initVars, nSessions, ptr, maxContextSize, systemInstructions,
                 registeredTools, toolRegistry, threadVars, nativeVars,
                 setToolCallbackCalls, toolOps, nativeStarted, crashed>>

\* fm.go:411 in addToContext(response): the sum is written back, and the
\* call returns the response (fm.go:710)
StoreResponse(t) ==
  /\ ~crashed
  /\ frame[t].pc = "storeResponse"
  /\ contextSize' = [contextSize EXCEPT ![frame[t].sess] =
        frame[t].tmp + estimateTokens(frame[t].rlen)]
  /\ callLog' = [callLog EXCEPT ![frame[t].sess] =
        Append(@, <<frame[t].plen, frame[t].rlen>>)]
  /\ frame' = [frame EXCEPT ![t] = Finish(t, frame[t], Ret("response", frame[t].rlen))]
  /\ UNCHANGED <<initVars, nSessions, ptr, maxContextSize, systemInstructions,
                 registeredTools, toolRegistry, threadVars, nativeVars,
                 setToolCallbackCalls, toolOps, nativeStarted, crashed>>

\* ------------------------------------------------- context-aware respond calls

\* fm.go:861-863, 901: the respond call the helper goroutine makes
HelperOp(op, opts) ==
  IF op = "RespondWithToolsContext" THEN "RespondWithTools"
  ELSE IF opts THEN "RespondWithOptions" ELSE "Respond"

\* fm.go:826-867 and 882-903: the checks, the channel and the start of the
\* helper goroutine.  RespondWithTimeout and RespondWithToolsTimeout
\* (fm.go:918-929) are these calls with a deadline context.
\* kind is the error the context reports once it is done (a context that
\* is done before the call is ContextDone taking place before the helper runs).
HostRespondContext(op, s, plen, opts, kind) ==
  /\ HostFree
  /\ s \in Created
  /\ LET f == [IdleFrame EXCEPT !.op = op, !.sess = s, !.plen = plen, !.opts = opts,
                                !.ctxKind = kind]
     IN
       IF ptr[s] = NULL
       THEN /\ frame' = [frame EXCEPT ![Host] = Finish(Host, f, Ret("err_invalid", 0))]
            /\ UNCHANGED ctxDone
       ELSE IF ~validateContextSize(contextSize[s], maxContextSize[s], plen)
       THEN /\ frame' = [frame EXCEPT ![Host] = Finish(Host, f, Ret("err_context", 0))]
            /\ UNCHANGED ctxDone
       ELSE /\ \E h \in Helpers : frame[h].pc = "idle"
            /\ LET h == CHOOSE x \in Helpers :
                          /\ frame[x].pc = "idle"
                          /\ \A y \in Helpers : frame[y].pc = "idle" => x <= y
               IN frame' = [frame EXCEPT
                    ![Host] = [f EXCEPT !.pc = "select", !.helper = h],
                    ![h] = [IdleFrame EXCEPT !.pc = "call", !.op = HelperOp(op, opts),
                                             !.sess = s, !.plen = plen]]
            /\ ctxDone' = FALSE
  /\ UNCHANGED <<initVars, goSessionVars, toolRegistry, chan, abandoned, cancelledOn,
                 nativeVars, setToolCallbackCalls, toolOps, nativeStarted, callLog,
                 crashed>>

\* the caller's context is cancelled or its deadline passes while the call
\* waits; the frame's field first keeps which of the two events select waits
\* for happened first
ContextDone ==
  /\ ~crashed
  /\ frame[Host].pc = "select"
  /\ ~ctxDone
  /\ ctxDone' = TRUE
  /\ frame' = [frame EXCEPT ![Host].first = IF @ = "none" THEN "ctx" ELSE @]
  /\ UNCHANGED <<initVars, goSessionVars, toolRegistry, chan, abandoned,
                 cancelledOn, nativeVars, setToolCallbackCalls, toolOps, nativeStarted,
                 callLog, crashed>>

\* a helper whose send reaches a channel that later calls read as well
HelperSendShared(h) ==
  /\ ~crashed
  /\ frame[h].pc = "send"
  /\ chan[h] = EmptyChan
  /\ frame' = [frame EXCEPT ![h] = IF h \in abandoned THEN IdleFrame
                                   ELSE [IdleFrame EXCEPT !.pc = "done"]]
  /\ abandoned' = abandoned \ {h}
  /\ chan' = [chan EXCEPT ![h] = frame[h].ret]
  /\ UNCHANGED <<initVars, goSessionVars, toolRegistry, ctxDone, cancelledOn,
                 nativeVars, setToolCallbackCalls, toolOps, nativeStarted, callLog,
                 crashed>>

\* a send on a channel without a buffer: it waits for the caller to receive
HelperSendUnbuffered(h) ==
  /\ ~crashed
  /\ frame[h].pc = "send"
  /\ chan[h] = EmptyChan
  /\ h \notin abandoned
  /\ frame' = [frame EXCEPT
        ![h] = [IdleFrame EXCEPT !.pc = "done"],
        ![Host].first = IF @ = "none" THEN "result" ELSE @]
  /\ chan' = [chan EXCEPT ![h] = frame[h].ret]
  /\ UNCHANGED <<initVars, goSessionVars, toolRegistry, ctxDone, abandoned, cancelledOn,
                 nativeVars, setToolCallbackCalls, toolOps, nativeStarted, callLog,
                 crashed>>

\* fm.go:866, 902: resultChan <- result, after which the goroutine ends.
\* The channel has capacity one.  When the caller has already returned,
\* nothing refers to the channel any more and the result is lost with it.
HelperSend(h) ==
  /\ ~crashed
  /\ frame[h].pc = "send"
  /\ chan[h] = EmptyChan
  /\ IF h \in abandoned
     THEN /\ frame' = [frame EXCEPT ![h] = IdleFrame]
          /\ abandoned' = abandoned \ {h}
          /\ UNCHANGED chan
     ELSE /\ frame' = [frame EXCEPT
                ![h] = [IdleFrame EXCEPT !.pc = "done"],
                ![Host].first = IF @ = "none" THEN "result" ELSE @]
          /\ chan' = [chan EXCEPT ![h] = frame[h].ret]
          /\ UNCHANGED abandoned
  /\ UNCHANGED <<initVars, goSessionVars, toolRegistry, ctxDone, cancelledOn,
                 nativeVars, setToolCallbackCalls, toolOps, nativeStarted, callLog,
                 crashed>>

\* fm.go:871-872, 907-908: select takes the case <-ctx.Done(); a result
\* that is already in the channel is dropped with it
SelectContextDone ==
  /\ ~crashed
  /\ frame[Host].pc = "select"
  /\ ctxDone
  /\ LET h == frame[Host].helper IN
       /\ frame' = [frame EXCEPT
            ![Host] = Finish(Host, frame[Host], Ret(frame[Host].ctxKind, 0)),
            ![h] = IF frame[h].pc = "done" THEN IdleFrame ELSE frame[h]]
       /\ abandoned' = IF frame[h].pc = "done" THEN abandoned ELSE abandoned \cup {h}
       /\ chan' = [chan EXCEPT ![h] = EmptyChan]
  /\ cancelledOn' = cancelledOn \cup {frame[Host].sess}
  /\ ctxDone' = FALSE
  /\ UNCHANGED <<initVars, goSessionVars, toolRegistry, nativeVars,
                 setToolCallbackCalls, toolOps, nativeStarted, callLog, crashed>>

\* fm.go:873-877, 909-913: select takes the case res := <-resultChan
SelectResult ==
  /\ ~crashed
  /\ frame[Host].pc = "select"
  /\ chan[frame[Host].helper] # EmptyChan
  /\ frame' = [frame EXCEPT
        ![Host] = Finish(Host, frame[Host], chan[frame[Host].helper]),
        ![frame[Host].helper] = IdleFrame]
  /\ chan' = [chan EXCEPT ![frame[Host].helper] = EmptyChan]
  /\ ctxDone' = FALSE
  /\ UNCHANGED <<initVars, goSessionVars, toolRegistry, abandoned, cancelledOn,
                 nativeVars, setToolCallbackCalls, toolOps, nativeStarted, callLog,
                 crashed>>

\* --------------------------------------------------------------------- Release

\* fm.go:344-345: the nil check and the native ReleaseSession
\* (FoundationModelsShim.swift:64-67), which gives up the wrapper
Release(s) ==
  /\ HostFree
  /\ s \in Created
  /\ LET f == [IdleFrame EXCEPT !.op = "Release", !.sess = s] IN
       IF ptr[s] # NULL
       THEN /\ relCount' = [relCount EXCEPT ![ptr[s]] = @ + 1]
            /\ wrapperLive' = wrapperLive \ {ptr[s]}
            /\ frame' = [frame EXCEPT ![Host] =
                 [f EXCEPT !.pc = "releasing", !.hnd = ptr[s], !.calls = {"ReleaseSession"}]]
       ELSE /\ frame' = [frame EXCEPT ![Host] = Finish(Host, f, NoRet)]
            /\ UNCHANGED <<relCount, wrapperLive>>
  /\ UNCHANGED <<initVars, goSessionVars, toolRegistry, threadVars, wTools, wSession,
                 swiftRegisteredTools, setToolCallbackCalls, toolOps, nativeStarted,
                 callLog, crashed>>

\* a Release that leaves the handle in the field
ReleaseKeepsHandle ==
  /\ ~crashed
  /\ frame[Host].pc = "releasing"
  /\ frame' = [frame EXCEPT ![Host] = Finish(Host, frame[Host], NoRet)]
  /\ UNCHANGED <<initVars, goSessionVars, toolRegistry, threadVars, nativeVars,
                 setToolCallbackCalls, toolOps, nativeStarted, callLog, crashed>>

\* a Release that also takes the session's tools out of the registry
ReleaseClearDropsTools ==
  /\ ~crashed
  /\ frame[Host].pc = "releasing"
  /\ ptr' = [ptr EXCEPT ![frame[Host].sess] = NULL]
  /\ toolRegistry' = [n \in ToolNames |->
        IF registeredTools[frame[Host].sess][n] # NoTool THEN NoTool
        ELSE toolRegistry[n]]
  /\ frame' = [frame EXCEPT ![Host] = Finish(Host, frame[Host], NoRet)]
  /\ UNCHANGED <<initVars, nSessions, contextSize, maxContextSize, systemInstructions,
                 registeredTools, threadVars, nativeVars,
                 setToolCallbackCalls, toolOps, nativeStarted, callLog, crashed>>

\* fm.go:346: s.ptr = nil
ReleaseClear ==
  /\ ~crashed
  /\ frame[Host].pc = "releasing"
  /\ ptr' = [ptr EXCEPT ![frame[Host].sess] = NULL]
  /\ frame' = [frame EXCEPT ![Host] = Finish(Host, frame[Host], NoRet)]
  /\ UNCHANGED <<initVars, nSessions, contextSize, maxContextSize, systemInstructions,
                 registeredTools, toolRegistry, threadVars, nativeVars,
                 setToolCallbackCalls, toolOps, nativeStarted, callLog, crashed>>

\* ----------------------------------------------------------------------- tools

ToolFrame(op, s, name, impl, ret, calls) ==
  [Returned(op, s, 0, FALSE, ret, calls) EXCEPT !.name = name, !.impl = impl]

\* the frame of the host thread inside the registry writes of a RegisterTool
\* (fm.go:456-457) or a ClearTools (fm.go:493-496) call
WritingFrame(op, s, name, impl) ==
  [IdleFrame EXCEPT !.pc = "writing", !.op = op, !.sess = s, !.name = name,
                    !.impl = impl]

\* the host thread can carry out the registry writes of this call: it is
\* about to make the call, or it is inside these writes
HostMayWrite(op, s, name, impl) ==
  \/ HostFree
  \/ /\ boot = "ready" /\ ~crashed
     /\ frame[Host] = WritingFrame(op, s, name, impl)

\* fm.go:456-457, 493-496: the host thread has begun the map writes of a
\* RegisterTool or ClearTools call on a valid session and has not finished
\* them; nothing in the code keeps other threads from the map meanwhile
RegistryWriting(op, s, name, impl) ==
  /\ HostFree
  /\ s \in Created
  /\ ptr[s] # NULL
  /\ frame' = [frame EXCEPT ![Host] = WritingFrame(op, s, name, impl)]
  /\ UNCHANGED <<initVars, goSessionVars, toolRegistry, threadVars, nativeVars,
                 setToolCallbackCalls, toolOps, nativeStarted, callLog, crashed>>

\* FoundationModelsShim.swift:307-340  RegisterTool on wrapper h: when the
\* definition decodes (ok), the tool is stored in the shim's registry and
\* appended to the wrapper's list, and the cached session is dropped
NativeRegisterTool(h, name, ok) ==
  IF ok
  THEN /\ swiftRegisteredTools' = swiftRegisteredTools \cup {name}
       /\ wTools' = [wTools EXCEPT ![h] = Append(@, name)]
       /\ wSession' = [wSession EXCEPT ![h] = NoSession]
  ELSE UNCHANGED <<swiftRegisteredTools, wTools, wSession>>

\* a RegisterTool that keeps the registry's entry when the name is taken
RegisterToolKeepsFirst(s, name, impl, ok) ==
  /\ HostMayWrite("RegisterTool", s, name, impl)
  /\ s \in Created
  /\ IF ptr[s] = NULL
     THEN /\ frame' = [frame EXCEPT ![Host] =
                ToolFrame("RegisterTool", s, name, impl, Ret("err_invalid", 0), {})]
          /\ UNCHANGED <<registeredTools, toolRegistry, toolOps, swiftRegisteredTools,
                         wTools, wSession>>
     ELSE /\ toolOps' = toolOps + 1
          /\ registeredTools' = [registeredTools EXCEPT ![s][name] = impl]
          /\ toolRegistry' = [toolRegistry EXCEPT ![name] =
                IF @ = NoTool THEN impl ELSE @]
          /\ NativeRegisterTool(ptr[s], name, ok)
          /\ frame' = [frame EXCEPT ![Host] =
                ToolFrame("RegisterTool", s, name, impl,
                          IF ok THEN Ret("nil", 0) ELSE Ret("err_native", 0),
                          {"RegisterTool"})]
  /\ UNCHANGED <<initVars, nSessions, ptr, contextSize, maxContextSize,
                 systemInstructions, threadVars, wrapperLive, relCount,
                 setToolCallbackCalls, nativeStarted, callLog, crashed>>

\* a RegisterTool that takes the tool out again when the shim refuses it
RegisterToolRollsBack(s, name, impl, ok) ==
  /\ HostMayWrite("RegisterTool", s, name, impl)
  /\ s \in Created
  /\ IF ptr[s] = NULL
     THEN /\ frame' = [frame EXCEPT ![Host] =
                ToolFrame("RegisterTool", s, name, impl, Ret("err_invalid", 0), {})]
          /\ UNCHANGED <<registeredTools, toolRegistry, toolOps, swiftRegisteredTools,
                         wTools, wSession>>
     ELSE /\ toolOps' = toolOps + 1
          /\ registeredTools' = IF ok THEN [registeredTools EXCEPT ![s][name] = impl]
                                ELSE registeredTools
          /\ toolRegistry' = IF ok THEN [toolRegistry EXCEPT ![name] = impl]
                             ELSE toolRegistry
          /\ NativeRegisterTool(ptr[s], name, ok)
          /\ frame' = [frame EXCEPT ![Host] =
                ToolFrame("RegisterTool", s, name, impl,
                          IF ok THEN Ret("nil", 0) ELSE Ret("err_native", 0),
                          {"RegisterTool"})]
  /\ UNCHANGED <<initVars, nSessions, ptr, contextSize, maxContextSize,
                 systemInstructions, threadVars, wrapperLive, relCount,
                 setToolCallbackCalls, nativeStarted, callLog, crashed>>

\* fm.go:450-484  RegisterTool; ok is the native call's result (1 or 0)
RegisterTool(s, name, impl, ok) ==
  /\ HostMayWrite("RegisterTool", s, name, impl)
  /\ s \in Created
  /\ IF ptr[s] = NULL
     THEN /\ frame' = [frame EXCEPT ![Host] =
                ToolFrame("RegisterTool", s, name, impl, Ret("err_invalid", 0), {})]
          /\ UNCHANGED <<registeredTools, toolRegistry, toolOps, swiftRegisteredTools,
                         wTools, wSession>>
     ELSE /\ toolOps' = toolOps + 1
          /\ registeredTools' = [registeredTools EXCEPT ![s][name] = impl]
          /\ toolRegistry' = [toolRegistry EXCEPT ![name] = impl]
          /\ NativeRegisterTool(ptr[s], name, ok)
          /\ frame' = [frame EXCEPT ![Host] =
                ToolFrame("RegisterTool", s, name, impl,
                          IF ok THEN Ret("nil", 0) ELSE Ret("err_native", 0),
                          {"RegisterTool"})]
  /\ UNCHANGED <<initVars, nSessions, ptr, contextSize, maxContextSize,
                 systemInstructions, threadVars, wrapperLive, relCount,
                 setToolCallbackCalls, nativeStarted, callLog, crashed>>

\* a ClearTools that empties the whole registry
ClearToolsWholeRegistry(s) ==
  /\ HostMayWrite("ClearTools", s, "none", NoTool)
  /\ s \in Created
  /\ IF ptr[s] = NULL
     THEN /\ frame' = [frame EXCEPT ![Host] =
                ToolFrame("ClearTools", s, "none", NoTool, Ret("err_invalid", 0), {})]
          /\ UNCHANGED <<registeredTools, toolRegistry, toolOps, wTools, wSession>>
     ELSE /\ toolOps' = toolOps + 1
          /\ toolRegistry' = [n \in ToolNames |-> NoTool]
          /\ registeredTools' = [registeredTools EXCEPT ![s] = [n \in ToolNames |-> NoTool]]
          /\ wTools' = [wTools EXCEPT ![ptr[s]] = <<>>]
          /\ wSession' = [wSession EXCEPT ![ptr[s]] = NoSession]
          /\ frame' = [frame EXCEPT ![Host] =
                ToolFrame("ClearTools", s, "none", NoTool, Ret("nil", 0), {"ClearTools"})]
  /\ UNCHANGED <<initVars, nSessions, ptr, contextSize, maxContextSize,
                 systemInstructions, threadVars, wrapperLive, relCount,
                 swiftRegisteredTools, setToolCallbackCalls, nativeStarted, callLog,
                 crashed>>

\* a ClearTools that leaves in the registry the names other sessions hold
ClearToolsKeepsShared(s) ==
  /\ HostMayWrite("ClearTools", s, "none", NoTool)
  /\ s \in Created
  /\ IF ptr[s] = NULL
     THEN /\ frame' = [frame EXCEPT ![Host] =
                ToolFrame("ClearTools", s, "none", NoTool, Ret("err_invalid", 0), {})]
          /\ UNCHANGED <<registeredTools, toolRegistry, toolOps, wTools, wSession>>
     ELSE /\ toolOps' = toolOps + 1
          /\ toolRegistry' = [n \in ToolNames |->
                IF /\ registeredTools[s][n] # NoTool
                   /\ \A b \in Created \ {s} : registeredTools[b][n] = NoTool
                THEN NoTool ELSE toolRegistry[n]]
          /\ registeredTools' = [registeredTools EXCEPT ![s] = [n \in ToolNames |-> NoTool]]
          /\ wTools' = [wTools EXCEPT ![ptr[s]] = <<>>]
          /\ wSession' = [wSession EXCEPT ![ptr[s]] = NoSession]
          /\ frame' = [frame EXCEPT ![Host] =
                ToolFrame("ClearTools", s, "none", NoTool, Ret("nil", 0), {"ClearTools"})]
  /\ UNCHANGED <<initVars, nSessions, ptr, contextSize, maxContextSize,
                 systemInstructions, threadVars, wrapperLive, relCount,
                 swiftRegisteredTools, setToolCallbackCalls, nativeStarted, callLog,
                 crashed>>

\* fm.go:487-505  ClearTools, with the shim's ClearTools
\* (FoundationModelsShim.swift:342-355), which always reports success
ClearTools(s) ==
  /\ HostMayWrite("ClearTools", s, "none", NoTool)
  /\ s \in Created
  /\ IF ptr[s] = NULL
     THEN /\ frame' = [frame EXCEPT ![Host] =
                ToolFrame("ClearTools", s, "none", NoTool, Ret("err_invalid", 0), {})]
          /\ UNCHANGED <<registeredTools, toolRegistry, toolOps, wTools, wSession>>
     ELSE /\ toolOps' = toolOps + 1
          /\ toolRegistry' = [n \in ToolNames |->
                IF registeredTools[s][n] # NoTool THEN NoTool ELSE toolRegistry[n]]
          /\ registeredTools' = [registeredTools EXCEPT ![s] = [n \in ToolNames |-> NoTool]]
          /\ wTools' = [wTools EXCEPT ![ptr[s]] = <<>>]
          /\ wSession' = [wSession EXCEPT ![ptr[s]] = NoSession]
          /\ frame' = [frame EXCEPT ![Host] =
                ToolFrame("ClearTools", s, "none", NoTool, Ret("nil", 0), {"ClearTools"})]
  /\ UNCHANGED <<initVars, nSessions, ptr, contextSize, maxContextSize,
                 systemInstructions, threadVars, wrapperLive, relCount,
                 swiftRegisteredTools, setToolCallbackCalls, nativeStarted, callLog,
                 crashed>>

\* the orders in which a range loop can visit the keys of a Go map
Orders(S) ==
  {q \in [1..Cardinality(S) -> S] : \A i, j \in 1..Cardinality(S) : q[i] = q[j] => i = j}

RECURSIVE Filter(_, _)
\* the subsequence of q whose elements are in S
Filter(q, S) ==
  IF q = <<>> THEN <<>>
  ELSE IF Head(q) \in S THEN <<Head(q)>> \o Filter(Tail(q), S)
  ELSE Filter(Tail(q), S)

\* the native create call RefreshSession makes for session s (fm.go:433-437)
RefreshCreate(s) ==
  IF systemInstructions[s] # 0 THEN "CreateSessionWithInstructions" ELSE "CreateSession"

RefreshSeedCarried(s) == contextSize[s]

\* the contextSize the constructor RefreshSession calls gives the new
\* session (fm.go:335 with instructions, fm.go:308 without)
RefreshSeed(s) ==
  IF systemInstructions[s] # 0 THEN estimateTokens(systemInstructions[s]) ELSE 0

\* fm.go:431-447  RefreshSession: a new session with the same instructions
\* (ok: the native create returns non-null), then RegisterTool on it for
\* every tool of s, visited in order q; okset are the names whose native
\* registration succeeds
RefreshSession(s, ok, q, okset) ==
  /\ HostFree
  /\ s \in Created
  /\ IF ~shimInitialized
     THEN /\ frame' = [frame EXCEPT ![Host] =
                Returned("RefreshSession", s, 0, FALSE, Ret("nil", 0), {})]
          /\ UNCHANGED <<goSessionVars, toolRegistry, nativeVars>>
     ELSE IF ~ok
     THEN /\ frame' = [frame EXCEPT ![Host] =
                Returned("RefreshSession", s, 0, FALSE, Ret("nil", 0), {RefreshCreate(s)})]
          /\ UNCHANGED <<goSessionVars, toolRegistry, nativeVars>>
     ELSE LET n == nSessions + 1
              names == {x \in ToolNames : registeredTools[s][x] # NoTool}
          IN
          /\ nSessions < MaxSessions
          /\ q \in Orders(names)
          /\ okset \subseteq names
          /\ nSessions' = n
          /\ ptr' = [ptr EXCEPT ![n] = n]
          /\ contextSize' = [contextSize EXCEPT ![n] = RefreshSeed(s)]
          /\ maxContextSize' = [maxContextSize EXCEPT ![n] = MAX_CONTEXT_SIZE]
          /\ systemInstructions' = [systemInstructions EXCEPT ![n] = systemInstructions[s]]
          /\ registeredTools' = [registeredTools EXCEPT ![n] = registeredTools[s]]
          /\ toolRegistry' = [x \in ToolNames |->
                IF x \in names THEN registeredTools[s][x] ELSE toolRegistry[x]]
          /\ wrapperLive' = wrapperLive \cup {n}
          /\ wTools' = [wTools EXCEPT ![n] = Filter(q, okset)]
          /\ wSession' = [wSession EXCEPT ![n] = NoSession]
          /\ swiftRegisteredTools' = swiftRegisteredTools \cup okset
          /\ UNCHANGED relCount
          /\ frame' = [frame EXCEPT ![Host] =
                Returned("RefreshSession", s, 0, FALSE, Ret("session", n),
                         {RefreshCreate(s)} \cup
                         (IF names # {} THEN {"RegisterTool"} ELSE {}))]
  /\ UNCHANGED <<initVars, threadVars, setToolCallbackCalls, toolOps, nativeStarted,
                 callLog, crashed>>

\* ------------------------------------------------------------- tool arguments
\* A Go value of type any is a record: t its dynamic type, s the text of a
\* string, len its length in bytes, half twice the value of a number (so
\* that halves are exact), big whether a float64 lies outside the int64 range.
Value(t, str, len, half, big) ==
  [t |-> t, s |-> str, len |-> len, half |-> half, big |-> big]

StringValue(str, len) == Value("string", str, len, 0, FALSE)

Float64Value(half) == Value("float64", "", 0, half, FALSE)

\* a float64 such as 1e30: integral, beyond the int64 range
BigFloat64 == Value("float64", "", 0, 0, TRUE)

IntValue(n) == Value("int", "", 0, 2 * n, FALSE)

OtherValue(t) == Value(t, "", 0, 0, FALSE)

\* the names arguments are given under, and the entry of a name that the
\* map does not hold
ArgNames == {"a", "b"}

Absent == OtherValue("absent")

\* _, exists := args[name]
Exists(args, name) == name \in DOMAIN args /\ args[name].t # "absent"

\* an optional field of ToolArgument (*int, *float64, *string): nil or set
None == [set |-> FALSE, v |-> 0]

Some(v) == [set |-> TRUE, v |-> v]

NoPattern == [set |-> FALSE, v |-> ""]

\* fm.go:192-203  ToolArgument; minimum and maximum are in halves
ToolArgument(name, type, required, minLength, maxLength, minimum, maximum, pattern, enum) ==
  [name |-> name, type |-> type, required |-> required, minLength |-> minLength,
   maxLength |-> maxLength, minimum |-> minimum, maximum |-> maximum,
   pattern |-> pattern, enum |-> enum]

\* regexp.MatchString for the patterns and strings that are tried:
\* "compile error" for a pattern that does not compile
MatchString(pattern, str) ==
  IF pattern = "(" THEN "compile error"
  ELSE IF pattern = "^a" /\ str \in {"add", "a"} THEN "match"
  ELSE IF pattern = "^[0-9+]+$" /\ str \in {"2+2"} THEN "match"
  ELSE "no match"

\* fm.go:980-1016  validateStringArgument; "nil" when it returns no error
validateStringArgument(value, argDef) ==
  IF value.t # "string" THEN "expected string"
  ELSE IF argDef.minLength.set /\ value.len < argDef.minLength.v THEN "string too short"
  ELSE IF argDef.maxLength.set /\ value.len > argDef.maxLength.v THEN "string too long"
  ELSE IF argDef.pattern.set /\ MatchString(argDef.pattern.v, value.s) = "compile error"
  THEN "invalid regex pattern"
  ELSE IF argDef.pattern.set /\ MatchString(argDef.pattern.v, value.s) = "no match"
  THEN "string does not match pattern"
  ELSE IF argDef.enum # {} /\ ~(\E e \in argDef.enum : e.t = "string" /\ e.s = value.s)
  THEN "value not in allowed enum values"
  ELSE "nil"

\* fm.go:1019-1046  validateNumberArgument
validateNumberArgument(value, argDef) ==
  IF value.t \notin {"float64", "float32", "int", "int32", "int64"} THEN "expected number"
  ELSE IF argDef.minimum.set /\ (IF value.big THEN FALSE ELSE value.half < argDef.minimum.v)
  THEN "number too small"
  ELSE IF argDef.maximum.set /\ (IF value.big THEN TRUE ELSE value.half > argDef.maximum.v)
  THEN "number too large"
  ELSE "nil"

\* fm.go:1049-1078  validateIntegerArgument.  For a float64 the test is
\* v != float64(int64(v)): beyond the int64 range the conversion yields a
\* value of the implementation's choosing, which is in range and so never
\* converts back to v.
validateIntegerArgument(value, argDef) ==
  IF value.t \notin {"int", "int32", "int64", "float64"} THEN "expected integer"
  ELSE IF value.t = "float64" /\ (value.big \/ value.half % 2 # 0)
  THEN "expected integer, got float with decimal part"
  ELSE IF argDef.minimum.set /\ value.half < argDef.minimum.v THEN "integer too small"
  ELSE IF argDef.maximum.set /\ value.half > argDef.maximum.v THEN "integer too large"
  ELSE "nil"

\* fm.go:1081-1106  validateBooleanArgument, validateArrayArgument and
\* validateObjectArgument: a type assertion each
validateKindArgument(value, want) ==
  IF value.t = want THEN "nil" ELSE "expected another type"

\* fm.go:960-977  validateArgumentValue
validateArgumentValue(value, argDef) ==
  CASE argDef.type = "string" -> validateStringArgument(value, argDef)
    [] argDef.type = "number" -> validateNumberArgument(value, argDef)
    [] argDef.type = "integer" -> validateIntegerArgument(value, argDef)
    [] argDef.type = "boolean" -> validateKindArgument(value, "bool")
    [] argDef.type = "array" -> validateKindArgument(value, "array")
    [] argDef.type = "object" -> validateKindArgument(value, "object")
    [] OTHER -> "unsupported argument type"

\* the error a validation returns: its kind ("nil" for no error), the
\* argument it names and the reason given for an invalid argument
ValidationError(kind, name, why) == [kind |-> kind, name |-> name, why |-> why]

NoValidationError == ValidationError("nil", "", "")

\* fm.go:934-957  ValidateToolArguments(args, argDefs): args maps the names
\* to values (Absent for a name it does not hold), argDefs is a sequence of
\* ToolArgument
ValidateToolArguments(args, argDefs) ==
  LET missing == {i \in 1..Len(argDefs) :
                    argDefs[i].required /\ ~Exists(args, argDefs[i].name)}
      invalid == {i \in 1..Len(argDefs) :
                    /\ Exists(args, argDefs[i].name)
                    /\ validateArgumentValue(args[argDefs[i].name], argDefs[i]) # "nil"}
  IN IF missing # {}
     THEN ValidationError("missing required argument", argDefs[FirstOf(missing)].name, "")
     ELSE IF invalid # {}
     THEN LET d == argDefs[FirstOf(invalid)] IN
          ValidationError("invalid argument", d.name, validateArgumentValue(args[d.name], d))
     ELSE NoValidationError

\* a call of ValidateToolArguments by the host
ValidateCall(args, argDefs) ==
  /\ HostFree
  /\ frame' = [frame EXCEPT ![Host] =
        [Returned("ValidateToolArguments", 0, 0, FALSE, NoRet, {}) EXCEPT
            !.val = Validation(args, argDefs, ValidateToolArguments(args, argDefs))]]
  /\ UNCHANGED <<initVars, goSessionVars, toolRegistry, threadVars, nativeVars,
                 setToolCallbackCalls, toolOps, nativeStarted, callLog, crashed>>

\* ---------------------------------------------------------------- tool results
\* A Go string is a sequence of pieces: pieces of plain text, and the pieces
\* "QUOTE" (a double quote), "LT" (a less-than sign), "BAD" (a byte that is
\* not valid UTF-8) and "FFFD" (the replacement character U+FFFD).

\* fm.go:206-209  ToolResult
ToolResult(content, error) == [content |-> content, error |-> error]

\* encoding/json writing one piece of a string: quotes are escaped, HTML
\* characters are written as a u003c escape, invalid UTF-8 as a ufffd escape
EscapePiece(x) ==
  CASE x = "QUOTE" -> "\\\""
    [] x = "LT" -> "\\u003c"
    [] x = "BAD" -> "\\ufffd"
    [] OTHER -> x

\* encoding/json reading one piece of a string literal
UnescapePiece(x) ==
  CASE x = "\\\"" -> "QUOTE"
    [] x = "\\u003c" -> "LT"
    [] x = "\\ufffd" -> "FFFD"
    [] OTHER -> x

\* a JSON string literal: the escaped pieces between two delimiters
Quoted(str) == <<"DQ">> \o [i \in DOMAIN str |-> EscapePiece(str[i])] \o <<"DQ">>

\* json.Marshal of a ToolResult (fm.go:584, 594, 605, 617): the content
\* always, the error unless it is empty (omitempty, fm.go:208)
Marshal(result) ==
  <<"{", "content:">> \o Quoted(result.content)
    \o (IF result.error # <<>> THEN <<",", "error:">> \o Quoted(result.error) ELSE <<>>)
    \o <<"}">>

\* json.Unmarshal of such a text into a ToolResult, as a caller decodes what
\* the callback returned
Unmarshal(text) ==
  LET close == CHOOSE i \in 4..Len(text) :
                 text[i] = "DQ" /\ \A j \in 4..(i - 1) : text[j] # "DQ"
      content == SubSeq(text, 4, close - 1)
      error == IF text[close + 1] = ","
               THEN SubSeq(text, close + 4, Len(text) - 2) ELSE <<>>
  IN ToolResult([i \in DOMAIN content |-> UnescapePiece(content[i])],
                [i \in DOMAIN error |-> UnescapePiece(error[i])])

\* the argument documents the callback is tried with, and what
\* json.Unmarshal(argsJSON, &args) makes of each (fm.go:591-592): a map from
\* the names to values, or an error; "null" decodes to a nil map
ArgsDocs ==
  {"{\"arguments\":\"2+2\"}", "{\"arguments\":\"7/2\"}", "{\"arguments\":\"1/0\"}",
   "{\"arguments\":\"two\"}", "{\"arguments\":5}", "{}", "null", "[1]", "{\"arguments\":"}

CallArgs(value) == [n \in {"arguments"} |-> value]

DecodeArgs(argsJSON) ==
  CASE argsJSON = "{\"arguments\":\"2+2\"}" -> [ok |-> TRUE, args |-> CallArgs(StringValue("2+2", 3))]
    [] argsJSON = "{\"arguments\":\"7/2\"}" -> [ok |-> TRUE, args |-> CallArgs(StringValue("7/2", 3))]
    [] argsJSON = "{\"arguments\":\"1/0\"}" -> [ok |-> TRUE, args |-> CallArgs(StringValue("1/0", 3))]
    [] argsJSON = "{\"arguments\":\"two\"}" -> [ok |-> TRUE, args |-> CallArgs(StringValue("two", 3))]
    [] argsJSON = "{\"arguments\":5}" -> [ok |-> TRUE, args |-> CallArgs(Float64Value(10))]
    [] argsJSON = "{}" -> [ok |-> TRUE, args |-> CallArgs(Absent)]
    [] argsJSON = "null" -> [ok |-> TRUE, args |-> CallArgs(Absent)]
    [] OTHER -> [ok |-> FALSE, args |-> CallArgs(Absent)]

\* ----------------------------------------------------------------------- tools
\* A Tool value is an implementation: 1 is the CalculatorTool of cmd/found,
\* which is a ValidatedTool; 2 is a tool that has no ValidateArguments and
\* whose Execute returns what its author made it return.

\* fm.go:599: tool.(ValidatedTool)
IsValidatedTool(impl) == impl = 1

\* tool_calc.go:18-25
calculatorArgDefs ==
  <<ToolArgument("arguments", "string", TRUE, None, None, None, None, NoPattern, {})>>

\* tool_calc.go:36-38  CalculatorTool.ValidateArguments
ValidateArguments(impl, args) == ValidateToolArguments(args, calculatorArgDefs)

\* tool_calc.go:120-125: what the expression pattern finds in the texts that
\* are tried, after the clean-up of tool_calc.go:101-116
FindStringSubmatch(expr) ==
  CASE expr = "2+2" -> [ok |-> TRUE, a |-> 2, op |-> "+", b |-> 2]
    [] expr = "7/2" -> [ok |-> TRUE, a |-> 7, op |-> "/", b |-> 2]
    [] expr = "1/0" -> [ok |-> TRUE, a |-> 1, op |-> "/", b |-> 0]
    [] OTHER -> [ok |-> FALSE, a |-> 0, op |-> "", b |-> 0]

\* tool_calc.go:83-97  containsUnsupportedOperation, for the texts tried
containsUnsupportedOperation(expr) == expr \in {"2^3"}

\* tool_calc.go:99-153  evaluateExpression: the value as a fraction n/d
evaluateExpression(expr) ==
  LET m == FindStringSubmatch(expr) IN
  IF ~m.ok THEN [ok |-> FALSE, n |-> 0, d |-> 1, why |-> "invalid expression format"]
  ELSE CASE m.op = "+" -> [ok |-> TRUE, n |-> m.a + m.b, d |-> 1, why |-> ""]
         [] m.op = "-" -> [ok |-> TRUE, n |-> m.a - m.b, d |-> 1, why |-> ""]
         [] m.op = "*" -> [ok |-> TRUE, n |-> m.a * m.b, d |-> 1, why |-> ""]
         [] m.op = "/" ->
              IF m.b = 0 THEN [ok |-> FALSE, n |-> 0, d |-> 1, why |-> "division by zero"]
              ELSE [ok |-> TRUE, n |-> m.a, d |-> m.b, why |-> ""]

Sprintf1f(n, d) ==
  LET q == (10 * n) \div d
      r == (10 * n) % d
      h == IF 2 * r > d \/ (2 * r = d /\ q % 2 = 1) THEN q + 1 ELSE q
  IN ToString(h \div 10) \o "." \o ToString(h % 10)

\* fmt.Sprintf("%.2f", n/d) for n >= 0 and d > 0 (tool_calc.go:78): two
\* decimals, rounded to nearest, ties to even
Sprintf2f(n, d) ==
  LET q == (100 * n) \div d
      r == (100 * n) % d
      h == IF 2 * r > d \/ (2 * r = d /\ q % 2 = 1) THEN q + 1 ELSE q
  IN ToString(h \div 100) \o "." \o ToString((h % 100) \div 10) \o ToString(h % 10)

\* what Execute returns: a ToolResult and an error (the empty string is nil)
Outcome(result, err) == [result |-> result, err |-> err]

\* tool_calc.go:45-80  CalculatorTool.Execute
calculatorExecute(args) ==
  IF ~Exists(args, "arguments")
  THEN Outcome(ToolResult(<<>>, <<"Missing required argument: arguments">>), <<>>)
  ELSE IF args["arguments"].t # "string"
  THEN Outcome(ToolResult(<<>>, <<"Arguments must be a string">>), <<>>)
  ELSE LET expression == args["arguments"].s
           e == evaluateExpression(expression)
       IN IF ~e.ok /\ e.why = "invalid expression format"
                   /\ containsUnsupportedOperation(expression)
          THEN Outcome(ToolResult(<<>>, <<"Unsupported operation">>), <<>>)
          ELSE IF ~e.ok
          THEN Outcome(ToolResult(<<>>, <<"Error evaluating expression '", expression,
                                         "': ", e.why>>), <<>>)
          ELSE Outcome(ToolResult(<<Sprintf2f(e.n, e.d)>>, <<>>), <<>>)

\* what the Execute of the other tool may return
Outcomes ==
  {Outcome(ToolResult(<<"sunny">>, <<>>), <<>>),
   Outcome(ToolResult(<<"say ", "QUOTE", "hi", "QUOTE", " ", "LT", "b>">>, <<>>), <<>>),
   Outcome(ToolResult(<<"caf", "BAD">>, <<>>), <<>>),
   Outcome(ToolResult(<<>>, <<"no such city">>), <<>>),
   Outcome(ToolResult(<<"partial">>, <<>>), <<"timeout">>),
   Outcome(ToolResult(<<"partial">>, <<"tool error">>), <<"timeout">>)}

\* tool.Execute(args) (fm.go:610); out is what the other tool returns
Execute(impl, args, out) == IF impl = 1 THEN calculatorExecute(args) ELSE out

FoldErrorDropped(o) == o.result

\* fm.go:610-613: toolResult.Error = err.Error() when Execute returned an
\* error
FoldError(o) ==
  IF o.err # <<>> THEN ToolResult(o.result.content, o.err) ELSE o.result

\* what an executeTool call did: the tool it resolved, how often and with
\* which arguments Execute ran, and the text it returned
Reply(tool, executed, args, json) ==
  [tool |-> tool, executed |-> executed, args |-> args, json |-> json]

executeToolUnvalidated(registry, toolName, argsJSON, out) ==
  LET tool == IF toolName \in DOMAIN registry THEN registry[toolName] ELSE NoTool
      dec == DecodeArgs(argsJSON)
  IN IF tool = NoTool
     THEN Reply(NoTool, 0, CallArgs(Absent),
                Marshal(ToolResult(<<>>, <<"tool '", toolName, "' not found">>)))
     ELSE IF ~dec.ok
     THEN Reply(tool, 0, CallArgs(Absent),
                Marshal(ToolResult(<<>>, <<"failed to parse arguments: ", argsJSON>>)))
     ELSE LET o == Execute(tool, dec.args, out) IN
          Reply(tool, 1, dec.args,
                Marshal(FoldError(o)))

\* fm.go:579-619  executeTool(toolName, argsJSON) with the registry as it is
\* at the call
executeTool(registry, toolName, argsJSON, out) ==
  LET tool == IF toolName \in DOMAIN registry THEN registry[toolName] ELSE NoTool
      dec == DecodeArgs(argsJSON)
  IN IF tool = NoTool
     THEN Reply(NoTool, 0, CallArgs(Absent),
                Marshal(ToolResult(<<>>, <<"tool '", toolName, "' not found">>)))
     ELSE IF ~dec.ok
     THEN Reply(tool, 0, CallArgs(Absent),
                Marshal(ToolResult(<<>>, <<"failed to parse arguments: ", argsJSON>>)))
     ELSE IF IsValidatedTool(tool) /\ ValidateArguments(tool, dec.args).kind # "nil"
     THEN Reply(tool, 0, CallArgs(Absent),
                Marshal(ToolResult(<<>>, <<"validation failed: ",
                                          ValidateArguments(tool, dec.args).kind,
                                          ValidateArguments(tool, dec.args).name>>)))
     ELSE LET o == Execute(tool, dec.args, out) IN
          Reply(tool, 1, dec.args,
                Marshal(FoldError(o)))

\* --------------------------------------------------------------- tool callback
\* the names a callback can be made with: the tools' and one nobody registered
CallbackNames == ToolNames \cup {"unknown"}

\* fm.go:524-528 called directly, as a test of the package does: the
\* callback's work without the shim around it
SimulatedCallback(name, argsJSON, out) ==
  /\ HostFree
  /\ frame' = [frame EXCEPT ![Host] =
        [Returned("executeTool", 0, 0, FALSE, NoRet, {}) EXCEPT
            !.cb = Callback(name, argsJSON, toolRegistry, out,
                            executeTool(toolRegistry, name, argsJSON, out)),
            !.ncb = 1]]
  /\ UNCHANGED <<initVars, goSessionVars, toolRegistry, threadVars, nativeVars,
                 setToolCallbackCalls, toolOps, nativeStarted, callLog, crashed>>

\* the names whose registry entries the host thread's frame f is writing
WritesOf(f) ==
  IF f.op = "RegisterTool" THEN {f.name}
  ELSE {n \in ToolNames : registeredTools[f.sess][n] # NoTool}

\* fm.go:580  toolRegistry[toolName] read on behalf of thread t's native
\* call: the map as it is, or, while the host thread is inside its writes
\* (a read of a Go map during a write of it is a data race), the map with
\* any part of these writes made
Seen(t) ==
  IF t = Host \/ frame[Host].pc # "writing" THEN {toolRegistry}
  ELSE LET f == frame[Host] IN
       {[n \in ToolNames |->
           IF n \in made
           THEN (IF f.op = "RegisterTool" THEN f.impl ELSE NoTool)
           ELSE toolRegistry[n]] : made \in SUBSET WritesOf(f)}

\* FoundationModelsShim.swift:289-305  executeGoTool inside a native respond
\* call of thread t, for a tool of the session the wrapper has cached: the
\* shim copies the name and the arguments with strdup, calls the callback
\* (fm.go:524-528: goString twice, executeTool, cString of the result),
\* copies the result and passes all three buffers to free.  The result
\* buffer is Go memory: free of it is undefined, and so is a lookup during
\* a write of the map; dies says whether the process survives them.
ExecuteGoTool(t, name, argsJSON, out, dies) ==
  /\ ~crashed
  /\ frame[t].pc = "await"
  /\ frame[t].ncb < MaxCallbacks
  /\ setToolCallbackCalls > 0
  /\ frame[t].hnd \in Slots
  /\ wSession[frame[t].hnd].built
  /\ \E i \in 1..Len(wSession[frame[t].hnd].tools) : wSession[frame[t].hnd].tools[i] = name
  /\ \E seen \in Seen(t) : frame' = [frame EXCEPT ![t] =
        [@ EXCEPT !.cb = Callback(name, argsJSON, seen, out,
                                  executeTool(seen, name, argsJSON, out)),
                  !.ncb = @ + 1,
                  !.calls = @ \cup {"callback"},
                  !.frees = @ \cup {Free("toolName", "strdup", "free"),
                                    Free("argsJSON", "strdup", "free"),
                                    Free("result", "cString", "free")}]]
  /\ crashed' = dies
  /\ UNCHANGED <<initVars, goSessionVars, toolRegistry, threadVars, nativeVars,
                 setToolCallbackCalls, toolOps, nativeStarted, callLog>>

\* ------------------------------------------------------------------ streaming
\* FoundationModelsShim.swift:392-423  RespondWithStreaming called with the
\* handle of session s: it starts a Task, here the work of thread h, and
\* returns without waiting for it
RespondWithStreaming(s, plen, h) ==
  /\ HostFree
  /\ s \in Created
  /\ ptr[s] # NULL
  /\ ptr[s] \in wrapperLive
  /\ frame[h].pc = "idle"
  /\ frame' = [frame EXCEPT
        ![Host] = Returned("RespondWithStreaming", s, plen, FALSE, NoRet,
                           {"RespondWithStreaming"}),
        ![h] = [IdleFrame EXCEPT !.pc = "task", !.op = "RespondWithStreaming",
                                 !.sess = s, !.plen = plen, !.hnd = ptr[s]]]
  /\ UNCHANGED <<initVars, goSessionVars, toolRegistry, threadVars, nativeVars,
                 setToolCallbackCalls, toolOps, nativeStarted, callLog, crashed>>

\* FoundationModelsShim.swift:405: the Task awaits
\* wrapper.session.respond(to:), which returns a response of length r or,
\* for r = -1, throws
StreamRespond(h, r) ==
  /\ ~crashed
  /\ frame[h].pc = "task"
  /\ frame' = [frame EXCEPT ![h].pc = IF r = -1 THEN "failed" ELSE "chunk",
                             ![h].rlen = IF r = -1 THEN 0 ELSE r]
  /\ wSession' = [wSession EXCEPT ![frame[h].hnd] =
        IF @.built THEN @ ELSE [built |-> TRUE, tools |-> wTools[frame[h].hnd]]]
  /\ UNCHANGED <<initVars, goSessionVars, toolRegistry, threadVars, wrapperLive,
                 relCount, wTools, swiftRegisteredTools, setToolCallbackCalls,
                 toolOps, nativeStarted, callLog, crashed>>

\* FoundationModelsShim.swift:408-410: the callback gets the whole response
StreamChunk(h) ==
  /\ ~crashed
  /\ frame[h].pc = "chunk"
  /\ frame' = [frame EXCEPT ![h].pc = "sentinel",
                             ![h].chunks = Append(@, frame[h].rlen),
                             ![h].frees = @ \cup {Free("chunk", "strdup", "free")}]
  /\ UNCHANGED <<initVars, goSessionVars, toolRegistry, threadVars, nativeVars,
                 setToolCallbackCalls, toolOps, nativeStarted, callLog, crashed>>

\* FoundationModelsShim.swift:413-415: the callback gets the empty string
StreamSentinel(h) ==
  /\ ~crashed
  /\ frame[h].pc = "sentinel"
  /\ frame' = [frame EXCEPT ![h].pc = "streamed",
                             ![h].chunks = Append(@, 0),
                             ![h].frees = @ \cup {Free("end", "strdup", "free")}]
  /\ UNCHANGED <<initVars, goSessionVars, toolRegistry, threadVars, nativeVars,
                 setToolCallbackCalls, toolOps, nativeStarted, callLog, crashed>>

\* FoundationModelsShim.swift:416-421: the catch block; the callback gets
\* "Error: " and the error's description, of length elen, and the Task ends
StreamError(h, elen) ==
  /\ ~crashed
  /\ frame[h].pc = "failed"
  /\ frame' = [frame EXCEPT ![h].pc = "streamed",
                             ![h].chunks = Append(@, ErrorPrefixLen + elen),
                             ![h].frees = @ \cup {Free("error", "strdup", "free")}]
  /\ UNCHANGED <<initVars, goSessionVars, toolRegistry, threadVars, nativeVars,
                 setToolCallbackCalls, toolOps, nativeStarted, callLog, crashed>>

\* FoundationModelsShim.swift:422: the Task is over
StreamEnd(h) ==
  /\ ~crashed
  /\ frame[h].pc = "streamed"
  /\ frame' = [frame EXCEPT ![h] = IdleFrame]
  /\ UNCHANGED <<initVars, goSessionVars, toolRegistry, threadVars, nativeVars,
                 setToolCallbackCalls, toolOps, nativeStarted, callLog, crashed>>

\* ------------------------------------------------- availability and model info

\* the 64-bit return register as four 16-bit limbs, most significant first,
\* after the shim returned the Int32 code; ext says whether the upper half
\* holds the sign extension or zeros
ReturnRegister(code, ext) ==
  LET lo == IF code >= 0 THEN <<code \div 65536, code % 65536>>
            ELSE <<65535, code + 65536>>
      hi == IF ext /\ code < 0 THEN <<65535, 65535>> ELSE <<0, 0>>
  IN hi \o lo

\* fm.go:172: the Go int value -1, in the same representation
ModelUnavailableUnknown == <<65535, 65535, 65535, 65535>>

\* fm.go:351-359  CheckModelAvailability; code is what the shim's
\* CheckModelAvailability (FoundationModelsShim.swift:71-85) returns, kept
\* in the frame next to the value the caller gets
CheckModelAvailability(code, ext) ==
  /\ HostFree
  /\ frame' = [frame EXCEPT ![Host] =
       IF ~shimInitialized
       THEN Returned("CheckModelAvailability", 0, 0, FALSE,
                     [kind |-> "availability", len |-> ModelUnavailableUnknown], {})
       ELSE [Returned("CheckModelAvailability", 0, 0, FALSE,
                      [kind |-> "availability", len |-> ReturnRegister(code, ext)],
                      {"CheckModelAvailability"}) EXCEPT !.code = code]]
  /\ UNCHANGED <<initVars, goSessionVars, toolRegistry, threadVars, nativeVars,
                 setToolCallbackCalls, toolOps, nativeStarted, callLog, crashed>>

\* fm.go:362-375  GetModelInfo; r = -1 is a null result pointer
GetModelInfo(r) ==
  /\ HostFree
  /\ frame' = [frame EXCEPT ![Host] =
       IF ~shimInitialized
       THEN Returned("GetModelInfo", 0, 0, FALSE, Ret("not_initialized", 0), {})
       ELSE IF r = -1
       THEN Returned("GetModelInfo", 0, 0, FALSE, Ret("err_modelinfo", 0), {"GetModelInfo"})
       ELSE [Returned("GetModelInfo", 0, 0, FALSE, Ret("info", r),
                      {"GetModelInfo", "free"}) EXCEPT
               !.frees = {Free("info", "strdup", "free")}]]
  /\ UNCHANGED <<initVars, goSessionVars, toolRegistry, threadVars, nativeVars,
                 setToolCallbackCalls, toolOps, nativeStarted, callLog, crashed>>

\* ------------------------------------------------------------------------ Next
NativeCodes == {0, 1, 2, 3, -1}

ContextOps == {"RespondWithContext", "RespondWithToolsContext"}

\* session construction by either constructor, at most max times
Construct(max) ==
  \/ \E ok \in BOOLEAN : nSessions < max /\ NewSession(ok)
  \/ \E ilen \in InstrLens, ok \in BOOLEAN :
        nSessions < max /\ NewSessionWithInstructions(ilen, ok)

\* RegisterTool and ClearTools, at most max of them taking effect, with
\* tools drawn from names and impls
ToolOps(max, names, impls) ==
  \/ \E s \in Slots, name \in names, impl \in impls, ok \in BOOLEAN :
        /\ ptr[s] # NULL => toolOps < max
        /\ RegisterTool(s, name, impl, ok)
  \/ \E s \in Slots :
        /\ ptr[s] # NULL => toolOps < max
        /\ ClearTools(s)

\* RefreshSession, succeeding while fewer than max sessions exist
Refresh(max) ==
  \E s \in Slots, ok \in BOOLEAN, q \in UNION {Orders(S) : S \in SUBSET ToolNames},
     okset \in SUBSET ToolNames :
        /\ ok => nSessions < max
        /\ RefreshSession(s, ok, q, okset)

\* the steps of a respond call that either kind of thread takes
RespondSteps ==
  \/ \E t \in Threads, dies \in BOOLEAN : NativeStart(t, dies)
  \/ \E t \in Threads : NativeGetSession(t)
  \/ \E t \in Threads, r \in ResponseLens \cup {-1} : NativeReturn(t, r)
  \/ \E t \in Threads : StorePrompt(t)
  \/ \E t \in Threads : LoadResponse(t)
  \/ \E t \in Threads : StoreResponse(t)

\* one session used by the host thread and by the helper goroutines of its
\* context-aware calls: the respond family, cancellation, release and tools
Next ==
  \/ InitializeShim
  \/ HostReturn
  \/ Construct(MaxConstructed)
  \/ \E op \in RespondOps, s \in Slots, plen \in PromptLens, opts \in BOOLEAN :
        /\ opts => op = "Respond"
        /\ HostRespond(op, s, plen, opts)
  \/ \E h \in Helpers : HelperStart(h)
  \/ RespondSteps
  \/ \E op \in ContextOps, s \in Slots, plen \in PromptLens, opts \in BOOLEAN,
        kind \in {"Canceled", "DeadlineExceeded"} :
        /\ opts => op = "RespondWithContext"
        /\ HostRespondContext(op, s, plen, opts, kind)
  \/ ContextDone
  \/ \E h \in Helpers : HelperSend(h)
  \/ SelectContextDone
  \/ SelectResult
  \/ \E s \in Slots : Release(s)
  \/ ReleaseClear
  \/ ToolOps(MaxToolOps, {"calculate"}, {1})
  \/ Refresh(MaxConstructed)

Spec == Init /\ [][Next]_vars

\* the host thread alone: sessions, their refreshed successors, the respond
\* family without contexts, release and tools
NextSeq ==
  \/ InitializeShim
  \/ HostReturn
  \/ Construct(MaxConstructed)
  \/ \E op \in RespondOps, s \in Slots, plen \in PromptLens, opts \in BOOLEAN :
        /\ opts => op = "Respond"
        /\ HostRespond(op, s, plen, opts)
  \/ RespondSteps
  \/ \E s \in Slots : Release(s)
  \/ ReleaseClear
  \/ ToolOps(MaxToolOps, {"calculate"}, {1})
  \/ Refresh(MaxSessions)

SpecSeq == Init /\ [][NextSeq]_vars

\* sessions and their tools, without respond calls
NextTools ==
  \/ InitializeShim
  \/ HostReturn
  \/ Construct(MaxSessions)
  \/ \E s \in Slots : Release(s)
  \/ ReleaseClear
  \/ ToolOps(MaxRegistrations, ToolNames, Impls)
  \/ Refresh(MaxSessions)

SpecTools == Init /\ [][NextTools]_vars

\* the bridge's initialization and the operations that need no session
NextBridge ==
  \/ InitializeShim
  \/ HostReturn
  \/ Construct(MaxSessions)
  \/ \E code \in NativeCodes, ext \in BOOLEAN : CheckModelAvailability(code, ext)
  \/ \E r \in {-1, 8} : GetModelInfo(r)

SpecBridge == Init /\ [][NextBridge]_vars

\* the values, the definitions and the argument maps validation is tried on
TriedValues ==
  {Absent, StringValue("add", 3), StringValue("multiply", 8), StringValue("", 0),
   Float64Value(-2), Float64Value(3), Float64Value(4), BigFloat64, IntValue(2),
   OtherValue("bool"), OtherValue("array"), OtherValue("object"), OtherValue("nil")}

TriedDefsA ==
  {ToolArgument("a", "number", TRUE, None, None, None, None, NoPattern, {}),
   ToolArgument("a", "number", FALSE, None, None, Some(0), Some(4), NoPattern, {}),
   ToolArgument("a", "string", FALSE, None, None, None, None, NoPattern,
                {StringValue("add", 3), StringValue("subtract", 8)}),
   ToolArgument("a", "string", TRUE, Some(1), Some(5), None, None,
                [set |-> TRUE, v |-> "^a"], {}),
   ToolArgument("a", "integer", FALSE, None, None, Some(0), None, NoPattern, {}),
   ToolArgument("a", "integer", FALSE, None, None, None, None, NoPattern, {}),
   ToolArgument("a", "boolean", FALSE, None, None, None, None, NoPattern, {}),
   ToolArgument("a", "array", FALSE, None, None, None, None, NoPattern, {}),
   ToolArgument("a", "object", TRUE, None, None, None, None, NoPattern, {})}

TriedDefB == ToolArgument("b", "string", TRUE, None, None, None, None, NoPattern, {})

TriedDefs == {<<d>> : d \in TriedDefsA} \cup {<<d, TriedDefB>> : d \in TriedDefsA}

TriedArgs ==
  {[n \in ArgNames |-> IF n = "a" THEN v ELSE w] :
     v \in TriedValues, w \in {Absent, StringValue("add", 3)}}

\* argument validation alone
NextValidate ==
  \/ InitializeShim
  \/ HostReturn
  \/ \E args \in TriedArgs, argDefs \in TriedDefs : ValidateCall(args, argDefs)

SpecValidate == Init /\ [][NextValidate]_vars

\* tools, their registration and the callback, on one session
NextCallback ==
  \/ InitializeShim
  \/ HostReturn
  \/ Construct(MaxConstructed)
  \/ ToolOps(MaxCallbackToolOps, ToolNames, Impls)
  \/ \E s \in Slots, plen \in PromptLens : HostRespond("RespondWithTools", s, plen, FALSE)
  \/ RespondSteps
  \/ \E name \in CallbackNames, argsJSON \in ArgsDocs, out \in Outcomes :
        SimulatedCallback(name, argsJSON, out)
  \/ \E t \in Threads, name \in ToolNames, argsJSON \in ArgsDocs, out \in Outcomes,
        dies \in BOOLEAN : ExecuteGoTool(t, name, argsJSON, out, dies)

SpecCallback == Init /\ [][NextCallback]_vars

\* tools registered and cleared by several sessions, and the callback called
\* directly between these calls
NextSimulated ==
  \/ InitializeShim
  \/ HostReturn
  \/ Construct(MaxSimulatedSessions)
  \/ ToolOps(MaxCallbackToolOps, ToolNames, Impls)
  \/ \E name \in CallbackNames, argsJSON \in ArgsDocs, out \in Outcomes :
        SimulatedCallback(name, argsJSON, out)

SpecSimulated == Init /\ [][NextSimulated]_vars

\* the callbacks that are tried while the registry is written
RaceDocs == {"{\"arguments\":\"2+2\"}"}

RaceOutcomes == {Outcome(ToolResult(<<"sunny">>, <<>>), <<>>)}

\* a tool-enabled call with a context that the caller abandons, and tools
\* registered and cleared by the host thread while the native call goes on
NextRace ==
  \/ InitializeShim
  \/ HostReturn
  \/ Construct(MaxConstructed)
  \/ ToolOps(MaxCallbackToolOps, ToolNames, {1})
  \/ \E s \in Slots, name \in ToolNames :
        /\ toolOps < MaxCallbackToolOps
        /\ \/ RegistryWriting("RegisterTool", s, name, 1)
           \/ RegistryWriting("ClearTools", s, "none", NoTool)
  \/ \E s \in Slots, plen \in PromptLens, kind \in {"Canceled", "DeadlineExceeded"} :
        HostRespondContext("RespondWithToolsContext", s, plen, FALSE, kind)
  \/ \E h \in Helpers : HelperStart(h)
  \/ RespondSteps
  \/ \E t \in Threads : NativeSessionBuild(t)
  \/ \E t \in Threads : NativeSessionStore(t)
  \/ ContextDone
  \/ \E h \in Helpers : HelperSend(h)
  \/ SelectContextDone
  \/ SelectResult
  \/ \E t \in Threads, name \in ToolNames, argsJSON \in RaceDocs, out \in RaceOutcomes,
        dies \in BOOLEAN : ExecuteGoTool(t, name, argsJSON, out, dies)

SpecRace == Init /\ [][NextRace]_vars

\* the lengths of the error descriptions that are tried
ErrorLens == {0, 12}

\* streaming calls on the shim, between registrations and plain calls
NextStream ==
  \/ InitializeShim
  \/ HostReturn
  \/ Construct(MaxConstructed)
  \/ ToolOps(MaxToolOps, {"calculate"}, {1})
  \/ \E s \in Slots, plen \in PromptLens : HostRespond("Respond", s, plen, FALSE)
  \/ RespondSteps
  \/ \E s \in Slots, plen \in PromptLens, h \in Helpers : RespondWithStreaming(s, plen, h)
  \/ \E h \in Helpers, r \in ResponseLens \cup {0, -1} : StreamRespond(h, r)
  \/ \E h \in Helpers : StreamChunk(h)
  \/ \E h \in Helpers : StreamSentinel(h)
  \/ \E h \in Helpers, elen \in ErrorLens : StreamError(h, elen)
  \/ \E h \in Helpers : StreamEnd(h)

SpecStream == Init /\ [][NextStream]_vars

\* the disks that are tried
Disks ==
  {Files(present, temp, room) :
     present \in {{}, {"./lib/libFMShim.dylib"},
                  {"./lib/libFMShim.dylib", "./build/libFMShim.dylib"},
                  {"./libFMShim.dylib", "./build/libFMShim.dylib"}},
     temp \in {"absent", "whole", "partial"},
     room \in {"enough", "none", "short"}}

\* locating the library, at the start and again, on a disk that others change
NextLocate ==
  \/ InitializeShim
  \/ HostReturn
  \/ Locate
  \/ \E fs \in Disks : FsChange(fs)

SpecLocate == Init /\ [][NextLocate]_vars

\* ---------------------------------------------------------------- properties

\* thread t takes the step in which Respond, RespondWithOptions,
\* RespondWithStructuredOutput or RespondWithTools checks its session and
\* validates its prompt
Validates(t) ==
  /\ frame'[t].op \in RespondOps
  /\ \/ t = Host /\ frame[t].pc = "idle" /\ frame'[t].pc # "idle"
     \/ t # Host /\ frame[t].pc = "call" /\ frame'[t].pc # "call"

\* the call of thread t is turned down in this step: it returns an error
\* string, has invoked no native entry point and leaves the counter alone
TurnedDown(t) ==
  /\ frame'[t].pc \in {"done", "send"}
  /\ frame'[t].ret.kind \in {"err_context", "err_invalid"}
  /\ frame'[t].calls = {}
  /\ nativeStarted' = nativeStarted
  /\ contextSize' = contextSize

\* the prompt of the call thread t begins does not fit its session any more
OverLimit(t) ==
  contextSize[frame'[t].sess] + (frame'[t].plen \div 4) > maxContextSize[frame'[t].sess]

\* C1 as stated: in every session state, each of the four respond calls is
\* turned down (error string, no native call, contextSize unchanged) when
\* contextSize + estimate(prompt) > maxContextSize, and goes on to the native
\* call when contextSize + estimate(prompt) <= maxContextSize.
C1_AnySessionState ==
  [][\A t \in Threads : Validates(t) =>
        /\ OverLimit(t) => TurnedDown(t)
        /\ ~OverLimit(t) => frame'[t].pc = "checked"]_vars

\* C1 amended: on a session that has not been released, each of the four
\* respond calls is turned down with the context-limit error (no native call,
\* contextSize unchanged) when contextSize + estimate(prompt) > maxContextSize
\* and goes on to the native call when the sum is <= maxContextSize; on a
\* released session the call is turned down whatever the prompt.
C1_ValidatesBeforeCalling ==
  [][\A t \in Threads : Validates(t) =>
        IF ptr[frame'[t].sess] = NULL
        THEN TurnedDown(t) /\ frame'[t].ret.kind = "err_invalid"
        ELSE /\ OverLimit(t) => TurnedDown(t) /\ frame'[t].ret.kind = "err_context"
             /\ ~OverLimit(t) => frame'[t].pc = "checked"]_vars

\* a prompt that exactly filled the window was answered, and the next
\* prompt on that session has been turned down for the context limit
C1_Witness ==
  \E s \in Created :
    /\ frame[Host].pc = "done" /\ frame[Host].sess = s
    /\ frame[Host].op \in RespondOps
    /\ frame[Host].ret.kind = "err_context"
    /\ ptr[s] # NULL
    /\ \E i \in 1..Len(callLog[s]) : (callLog[s][i][1] \div 4) = maxContextSize[s]

RECURSIVE LoggedTokens(_)
\* the sum of floor(len(p)/4) + floor(len(r)/4) over the answered calls q
LoggedTokens(q) ==
  IF q = <<>> THEN 0
  ELSE (Head(q)[1] \div 4) + (Head(q)[2] \div 4) + LoggedTokens(Tail(q))

\* no thread is between the native call's return and the end of the two
\* addToContext calls on session s
Settled(s) ==
  \A t \in Threads :
    frame[t].pc \in {"storePrompt", "loadResponse", "storeResponse"} => frame[t].sess # s

\* C2: on a session all of whose respond-family calls so far ran to their
\* end (none returned ctx.Err()), between calls contextSize equals
\* floor(len(instructions)/4) plus the sum over the answered calls of
\* floor(len(p_i)/4) + floor(len(r_i)/4).
C2_ContextAccounting ==
  \A s \in Created :
    (s \notin cancelledOn /\ Settled(s)) =>
      contextSize[s] = (systemInstructions[s] \div 4) + LoggedTokens(callLog[s])

\* two calls were answered on a session with nine bytes of instructions
C2_Witness ==
  \E s \in Created :
    /\ s \notin cancelledOn /\ Settled(s)
    /\ systemInstructions[s] = 9
    /\ Len(callLog[s]) = 2
    /\ contextSize[s] = 8

\* C3: in every reachable state of a session contextSize <= maxContextSize,
\* so GetRemainingContextTokens is never negative.
C3_WithinLimit ==
  \A s \in Created :
    contextSize[s] <= maxContextSize[s] /\ GetRemainingContextTokens(s) >= 0

\* C4: the contextSize of a session never decreases, whatever operation
\* takes a step (respond family, RegisterTool, ClearTools, RefreshSession,
\* Release).
C4_NeverDecreases ==
  [][\A s \in Created : contextSize'[s] >= contextSize[s]]_vars

\* C5: the native ReleaseSession is invoked at most once for a session's
\* handle: the first Release clears the handle field, and a later Release
\* returns without invoking anything.
C5_ReleasedOnce ==
  /\ \A h \in Slots : relCount[h] <= 1
  /\ (frame[Host].pc = "done" /\ frame[Host].op = "Release") =>
        /\ ptr[frame[Host].sess] = NULL
        /\ relCount[frame[Host].sess] = 1
        /\ frame[Host].calls \subseteq {"ReleaseSession"}

\* a second Release of a session has returned, having invoked nothing
C5_Witness ==
  /\ frame[Host].pc = "done" /\ frame[Host].op = "Release"
  /\ frame[Host].calls = {}
  /\ relCount[frame[Host].sess] = 1

\* the operations C6 is about
AfterReleaseOps == RespondOps \cup ContextOps \cup {"RegisterTool", "ClearTools"}

\* C6: once Release has returned on a session, every later respond-family,
\* context-aware, RegisterTool or ClearTools call on it returns the
\* invalid-session error at once, invokes no native entry point, and changes
\* neither contextSize nor the session's tools nor the tool registry (nor
\* anything the shim holds).
C6_ReleasedSessionRefuses ==
  [][(/\ frame[Host].pc = "idle" /\ frame'[Host].pc # "idle"
      /\ frame'[Host].op \in AfterReleaseOps
      /\ relCount[frame'[Host].sess] > 0) =>
        /\ frame'[Host].pc = "done"
        /\ frame'[Host].ret.kind = "err_invalid"
        /\ frame'[Host].calls = {}
        /\ \A h \in Helpers : frame'[h] = frame[h]
        /\ UNCHANGED <<contextSize, registeredTools, toolRegistry, nativeVars,
                       nativeStarted, toolOps>>]_vars

\* RegisterTool on a released session has returned the invalid-session error
C6_Witness ==
  /\ frame[Host].pc = "done" /\ frame[Host].op = "RegisterTool"
  /\ frame[Host].ret.kind = "err_invalid"
  /\ relCount[frame[Host].sess] = 1

\* C7: when the host issues its operations on a session one after another,
\* calls that returned a cancellation or timeout error included, at most one
\* native call is in flight on the session's handle at any time, and none is
\* in flight when Release passes the handle to ReleaseSession.
C7_OneNativeCallPerHandle ==
  /\ \A h \in Slots : Cardinality(InFlight(h)) <= 1
  /\ frame[Host].pc = "releasing" => InFlight(frame[Host].hnd) = {}

\* the host's context-aware call takes the step in which its select returns
Selects == frame[Host].pc = "select" /\ frame'[Host].pc = "done"

\* the error of the context of the host's current call
CtxErr == Ret(frame[Host].ctxKind, 0)

\* C8 as stated: the call returns ctx.Err() if the context was done before
\* the helper delivered its result, and the helper's result if the helper
\* delivered first.
C8_FirstEventWins ==
  [][Selects =>
        /\ frame[Host].first = "ctx" => frame'[Host].ret = CtxErr
        /\ frame[Host].first = "result" =>
              frame'[Host].ret = chan[frame[Host].helper]]_vars

\* C8 amended: when select runs with only the context done the call returns
\* ctx.Err(); with only the helper's result ready it returns that result;
\* with both ready it returns either.  When it returns ctx.Err() the helper
\* is left running where it was, and the result of a helper whose caller
\* returned ctx.Err() never reaches a channel a caller reads.
C8_SelectOutcome ==
  [][/\ Selects =>
          LET h == frame[Host].helper IN
          /\ (ctxDone /\ chan[h] = EmptyChan) => frame'[Host].ret = CtxErr
          /\ (~ctxDone /\ chan[h] # EmptyChan) => frame'[Host].ret = chan[h]
          /\ frame'[Host].ret \in {CtxErr, chan[h]}
          /\ frame'[Host].ret = CtxErr =>
                /\ chan'[h] = EmptyChan
                /\ frame[h].pc # "done" => frame'[h] = frame[h] /\ h \in abandoned'
     /\ \A h \in abandoned : chan'[h] = EmptyChan]_vars

\* the call returned ctx.Err() while the native call of its helper is in flight
C8_Witness ==
  /\ frame[Host].pc = "done" /\ frame[Host].op \in ContextOps
  /\ frame[Host].ret.kind \in {"Canceled", "DeadlineExceeded"}
  /\ \E h \in abandoned : frame[h].pc = "await"

\* C9: when loading the library, or resolving one of the twelve entry
\* points, or loading libc, or resolving free fails, the bridge stays
\* uninitialized with an error naming the first item that failed; from then
\* on NewSession and NewSessionWithInstructions return nil,
\* CheckModelAvailability returns ModelUnavailableUnknown, GetModelInfo
\* returns the not-initialized message, no session exists, and no native
\* entry point is invoked, SetToolCallback included.  When nothing fails
\* every item is resolved.
C9_AllOrNothing ==
  boot = "ready" =>
    IF resolved = LoadItems
    THEN shimInitialized /\ shimInitError = "nil"
    ELSE /\ ~shimInitialized
         /\ shimInitError = LoadOrder[Cardinality(resolved) + 1]
         /\ shimInitError \notin resolved
         /\ nSessions = 0 /\ wrapperLive = {}
         /\ setToolCallbackCalls = 0
         /\ frame[Host].calls = {}
         /\ frame[Host].pc = "done" =>
              /\ frame[Host].op \in {"NewSession", "NewSessionWithInstructions"} =>
                    frame[Host].ret = Ret("nil", 0)
              /\ frame[Host].op = "CheckModelAvailability" =>
                    frame[Host].ret.len = ModelUnavailableUnknown
              /\ frame[Host].op = "GetModelInfo" =>
                    frame[Host].ret = Ret("not_initialized", 0)

\* every entry point and libc were loaded, free was not, and GetModelInfo
\* has returned the not-initialized message
C9_Witness ==
  /\ boot = "ready" /\ shimInitError = "free"
  /\ EntryPoints \cup {"libc"} \subseteq resolved
  /\ frame[Host].pc = "done" /\ frame[Host].op = "GetModelInfo"
  /\ frame[Host].ret.kind = "not_initialized"

\* the host's RegisterTool call on a session that has its handle takes its step
Registers ==
  /\ frame[Host].pc = "idle" /\ frame'[Host].pc = "done"
  /\ frame'[Host].op = "RegisterTool"
  /\ ptr[frame'[Host].sess] # NULL

\* C10: a RegisterTool call on a valid session makes the process-wide
\* registry resolve the tool's name to the implementation just passed,
\* whichever session registered that name before, and makes the session's own
\* map hold it; the other names and the other sessions' maps stay as they
\* are.  The registrations RefreshSession makes for the new session do the
\* same, and no step other than ClearTools changes the registry or a map.
C10_LastRegistrationWins ==
  [][IF Registers
     THEN LET f == frame'[Host] IN
          /\ toolRegistry' = [toolRegistry EXCEPT ![f.name] = f.impl]
          /\ registeredTools' = [registeredTools EXCEPT ![f.sess][f.name] = f.impl]
     ELSE IF frame'[Host].op = "RefreshSession" /\ nSessions' # nSessions
     THEN LET s == frame'[Host].sess IN
          /\ registeredTools' = [registeredTools EXCEPT ![nSessions'] = registeredTools[s]]
          /\ \A n \in ToolNames :
                toolRegistry'[n] = IF registeredTools[s][n] # NoTool
                                   THEN registeredTools[s][n] ELSE toolRegistry[n]
     ELSE IF frame'[Host].op = "ClearTools" \/ nSessions' # nSessions
     THEN TRUE
     ELSE UNCHANGED <<toolRegistry, registeredTools>>]_vars

\* session 2 has just registered, under a name session 1 uses, another
\* implementation, and the registry resolves the name to it
C10_Witness ==
  /\ frame[Host].pc = "done" /\ frame[Host].op = "RegisterTool"
  /\ frame[Host].sess = 2 /\ frame[Host].name = "calculate" /\ frame[Host].impl = 2
  /\ ptr[1] # NULL /\ ptr[2] # NULL
  /\ registeredTools[1]["calculate"] = 1
  /\ registeredTools[2]["calculate"] = 2
  /\ toolRegistry["calculate"] = 2

\* what C15 counts as a value of the declared type
OfDeclaredType(value, type) ==
  CASE type = "string" -> value.t = "string"
    [] type = "number" -> value.t \in {"float64", "float32", "int", "int32", "int64"}
    [] type = "integer" ->
          \/ value.t \in {"int", "int32", "int64"}
          \/ value.t = "float64" /\ (value.big \/ value.half % 2 = 0)
    [] type = "boolean" -> value.t = "bool"
    [] type = "array" -> value.t = "array"
    [] type = "object" -> value.t = "object"

\* what C15 counts as a value of the declared type within the declared
\* constraints
WithinConstraints(value, d) ==
  IF d.type = "string"
  THEN /\ d.minLength.set => value.len >= d.minLength.v
       /\ d.maxLength.set => value.len <= d.maxLength.v
       /\ d.pattern.set => MatchString(d.pattern.v, value.s) = "match"
       /\ d.enum # {} => \E e \in d.enum : e.t = "string" /\ e.s = value.s
  ELSE IF d.type \in {"number", "integer"}
  THEN /\ d.minimum.set => (value.big \/ value.half >= d.minimum.v)
       /\ d.maximum.set => (~value.big /\ value.half <= d.maximum.v)
  ELSE TRUE

\* C15: ValidateToolArguments returns an error if and only if a required
\* declared argument is absent, or a declared argument that is present is
\* not of its declared type or breaks a declared constraint (for an integer:
\* a floating value that is not integral).
C15_ErrorIffViolation ==
  (frame[Host].pc = "done" /\ frame[Host].op = "ValidateToolArguments") =>
    LET v == frame[Host].val IN
    (v.err.kind # "nil") <=>
      \E i \in 1..Len(v.argDefs) :
        LET d == v.argDefs[i] IN
        IF Exists(v.args, d.name)
        THEN ~OfDeclaredType(v.args[d.name], d.type) \/ ~WithinConstraints(v.args[d.name], d)
        ELSE d.required

\* fm.go:164-173: a ModelAvailability value (a Go int) in the representation
\* of ReturnRegister
ModelAvailability(n) ==
  IF n >= 0 THEN <<0, 0, n \div 65536, n % 65536>> ELSE <<65535, 65535, 65535, n + 65536>>

\* C16: CheckModelAvailability returns the enumeration value of a native
\* code in 0..3 and ModelUnavailableUnknown for every other native code, the
\* shim's 32-bit -1 included.
C16_UnknownRecognised ==
  (/\ frame[Host].pc = "done"
   /\ frame[Host].op = "CheckModelAvailability"
   /\ "CheckModelAvailability" \in frame[Host].calls) =>
    IF frame[Host].code \in 0..3
    THEN frame[Host].ret.len = ModelAvailability(frame[Host].code)
    ELSE frame[Host].ret.len = ModelUnavailableUnknown

\* the step in which RefreshSession returns a session
Refreshes ==
  /\ frame[Host].pc = "idle"
  /\ frame'[Host].pc = "done"
  /\ frame'[Host].op = "RefreshSession"
  /\ frame'[Host].ret.kind = "session"

\* C17: the session RefreshSession returns has a handle distinct from S's,
\* S's instructions, a contextSize of estimate(instructions) (0 without
\* instructions) and S's tool names; S is not released and keeps its handle,
\* its contextSize and its tools.
C17_RefreshedSession ==
  [][Refreshes =>
       LET s == frame'[Host].sess
           n == frame'[Host].ret.len
       IN /\ n \notin Created /\ n \in Created'
          /\ ptr'[n] # NULL /\ ptr'[n] # ptr[s] /\ ptr'[n] \in wrapperLive'
          /\ systemInstructions'[n] = systemInstructions[s]
          /\ contextSize'[n] = IF systemInstructions[s] = 0 THEN 0
                               ELSE estimateTokens(systemInstructions[s])
          /\ {x \in ToolNames : registeredTools'[n][x] # NoTool}
               = {x \in ToolNames : registeredTools[s][x] # NoTool}
          /\ ptr'[s] = ptr[s] /\ relCount' = relCount
          /\ (ptr[s] \in wrapperLive) = (ptr[s] \in wrapperLive')
          /\ contextSize'[s] = contextSize[s]
          /\ registeredTools'[s] = registeredTools[s]]_vars

\* a refreshed session next to an original whose context has grown and
\* which holds a tool
C17_Witness ==
  /\ frame[Host].pc = "done"
  /\ frame[Host].op = "RefreshSession"
  /\ frame[Host].ret.kind = "session"
  /\ ptr[frame[Host].sess] # NULL
  /\ contextSize[frame[Host].sess] > contextSize[frame[Host].ret.len]
  /\ registeredTools[frame[Host].ret.len]["calculate"] # NoTool

\* the step in which thread t gets a null pointer back from a native
\* respond entry point
NullReturn(t) ==
  /\ frame[t].pc = "await"
  /\ frame'[t].pc \in {"done", "send"}
  /\ frame'[t].ret.kind = "err_noresponse"

\* C18: when a native respond entry point returns a null pointer, the call
\* returns the 'no response' error string, frees no buffer, leaves
\* contextSize unchanged and leaves the session as usable as it was.
C18_NullResponse ==
  [][\A t \in Threads :
       NullReturn(t) =>
         /\ frame'[t].ret = Ret("err_noresponse", 0)
         /\ "free" \notin frame'[t].calls
         /\ contextSize' = contextSize /\ callLog' = callLog
         /\ ptr' = ptr /\ maxContextSize' = maxContextSize
         /\ registeredTools' = registeredTools
         /\ wrapperLive' = wrapperLive /\ relCount' = relCount]_vars

\* the host got 'no response' on a live session whose context holds an
\* earlier answered call
C18_Witness ==
  /\ frame[Host].pc = "done"
  /\ frame[Host].op \in RespondOps
  /\ frame[Host].ret.kind = "err_noresponse"
  /\ "free" \notin frame[Host].calls
  /\ ptr[frame[Host].sess] # NULL
  /\ Len(callLog[frame[Host].sess]) = 1
  /\ contextSize[frame[Host].sess] > 0

\* the step in which ClearTools on a valid session returns
Clears ==
  /\ frame[Host].pc = "idle"
  /\ frame'[Host].pc = "done"
  /\ frame'[Host].op = "ClearTools"
  /\ frame'[Host].ret.kind # "err_invalid"

\* what a callback for name finds in registry, and the error it reports
Lookup(registry, name) ==
  LET r == executeTool(registry, name, "{}", Outcome(ToolResult(<<>>, <<>>), <<>>))
  IN [tool |-> r.tool, error |-> Unmarshal(r.json).error]

\* C11: after ClearTools on a valid session S, S has no tools; a callback
\* for any name S held reports that the tool is not found; a name S did not
\* hold resolves to the implementation it resolved to before.
C11_ClearTools ==
  [][Clears =>
       LET s == frame'[Host].sess IN
       \A n \in ToolNames :
         /\ registeredTools'[s][n] = NoTool
         /\ registeredTools[s][n] # NoTool =>
              /\ Lookup(toolRegistry', n).tool = NoTool
              /\ Lookup(toolRegistry', n).error = <<"tool '", n, "' not found">>
         /\ registeredTools[s][n] = NoTool =>
              Lookup(toolRegistry', n).tool = Lookup(toolRegistry, n).tool]_vars

\* ClearTools returned on a session that held 'calculate', while another
\* session's 'weather' still resolves
C11_Witness ==
  \E s, s2 \in Created :
    /\ s # s2 /\ ptr[s2] # NULL
    /\ frame[Host].pc = "done" /\ frame[Host].op = "ClearTools"
    /\ frame[Host].sess = s /\ frame[Host].ret.kind = "nil"
    /\ toolOps = MaxRegistrations
    /\ wTools[ptr[s2]] = <<"weather">>
    /\ registeredTools[s2]["calculate"] = NoTool
    /\ registeredTools[s2]["weather"] = 2
    /\ "calculate" \in swiftRegisteredTools
    /\ Lookup(toolRegistry, "calculate").tool = NoTool
    /\ Lookup(toolRegistry, "weather").tool = 2

\* the callbacks made: the threads whose frame holds one
Called == {t \in Threads : frame[t].cb.name # "none"}

\* the registry entry a callback's name had
Registered(c) == IF c.name \in DOMAIN c.registry THEN c.registry[c.name] ELSE NoTool

\* a text is the serialization of a ToolResult: an object with a content
\* and at most an error after it, both string literals in which no quote
\* and no invalid byte stands unescaped
Serialized(json) ==
  LET quotes == {i \in 1..Len(json) : json[i] = "DQ"}
      r == Unmarshal(json)
  IN /\ Len(json) >= 5
     /\ json[1] = "{" /\ json[2] = "content:" /\ json[3] = "DQ"
     /\ json[Len(json) - 1] = "DQ" /\ json[Len(json)] = "}"
     /\ \A i \in 1..Len(json) : json[i] \notin {"QUOTE", "BAD"}
     /\ \/ Cardinality(quotes) = 2 /\ Len(json) = Len(r.content) + 5
        \/ /\ Cardinality(quotes) = 4
           /\ Len(json) = Len(r.content) + Len(r.error) + 9
           /\ json[Len(r.content) + 5] = "," /\ json[Len(r.content) + 6] = "error:"
           /\ json[Len(r.content) + 7] = "DQ"

\* C12: every invocation of the tool callback returns a serialized
\* ToolResult: for an unknown name its error says the tool was not found,
\* for an argument buffer that does not decode it is a parse error, for
\* arguments the tool's ValidateArguments turns down a validation error, and
\* an error returned by Execute is the result's error.
C12_AlwaysAResult ==
  \A t \in Called :
    LET c == frame[t].cb
        r == Unmarshal(c.reply.json)
        dec == DecodeArgs(c.argsJSON)
    IN /\ Serialized(c.reply.json)
       /\ IF Registered(c) = NoTool
          THEN r = ToolResult(<<>>, <<"tool '", c.name, "' not found">>)
          ELSE IF ~dec.ok
          THEN r.content = <<>> /\ Head(r.error) = "failed to parse arguments: "
          ELSE IF /\ IsValidatedTool(Registered(c))
                  /\ ValidateArguments(Registered(c), dec.args).kind # "nil"
          THEN r.content = <<>> /\ Head(r.error) = "validation failed: "
          ELSE LET o == Execute(Registered(c), dec.args, c.out) IN
               o.err # <<>> => r.error = o.err

\* inside a native call the shim called back for the calculator with a
\* number for its string argument, and got the validation error
C12_Witness ==
  /\ frame[Host].pc = "await"
  /\ frame[Host].cb.name = "calculate"
  /\ frame[Host].cb.argsJSON = "{\"arguments\":5}"
  /\ Registered(frame[Host].cb) = 1
  /\ Head(Unmarshal(frame[Host].cb.reply.json).error) = "validation failed: "

\* C13: Execute runs in a callback only after the lookup and the decoding
\* succeeded and, for a tool with ValidateArguments, only after that
\* returned no error on the same arguments; otherwise it is not invoked.
C13_ExecuteAfterChecks ==
  \A t \in Called :
    LET c == frame[t].cb
        dec == DecodeArgs(c.argsJSON)
        passed == /\ Registered(c) # NoTool
                  /\ dec.ok
                  /\ IsValidatedTool(Registered(c)) =>
                       ValidateArguments(Registered(c), dec.args).kind = "nil"
    IN /\ c.reply.executed \in {0, 1}
       /\ c.reply.executed = 1 <=> passed
       /\ c.reply.executed = 1 => c.reply.args = dec.args

\* the calculator, registered as 'weather', was resolved and got an empty
\* object: its Execute did not run
C13_Witness ==
  /\ frame[Host].pc = "done" /\ frame[Host].op = "executeTool"
  /\ frame[Host].cb.name = "weather"
  /\ Registered(frame[Host].cb) = 1
  /\ frame[Host].cb.argsJSON = "{}"
  /\ frame[Host].cb.reply.executed = 0
  /\ frame[Host].cb.reply.tool = 1

\* a JSON object among the argument documents
IsJSONObject(argsJSON) == DecodeArgs(argsJSON).ok /\ argsJSON # "null"

\* a string without a byte that is not valid UTF-8
ValidUTF8(str) == \A i \in DOMAIN str : str[i] # "BAD"

\* the simulated callbacks for the name of a tool that a session holds
SimulatedFor(s) ==
  /\ frame[Host].pc = "done" /\ frame[Host].op = "executeTool"
  /\ frame[Host].cb.name \in ToolNames
  /\ registeredTools[s][frame[Host].cb.name] # NoTool
  /\ IsJSONObject(frame[Host].cb.argsJSON)

\* what C14 says of a simulated callback c for tool t
RoundTrip(c, t) ==
  LET dec == DecodeArgs(c.argsJSON)
      o == Execute(t, dec.args, c.out)
  IN /\ c.reply.tool = t
     /\ c.reply.executed = 1
     /\ c.reply.args = dec.args
     /\ o.err = <<>> => Unmarshal(c.reply.json) = o.result
     /\ (t = 1 /\ c.argsJSON = "{\"arguments\":\"2+2\"}") =>
           Unmarshal(c.reply.json) = ToolResult(<<"4.00">>, <<>>)

\* C14 as stated: after RegisterTool(t) a simulated callback with t's name
\* and a JSON object resolves to t, runs Execute once with the decoded
\* arguments and returns a text that decodes to the content and error
\* Execute returned; for the calculator and "2+2" the content is the sum.
C14_RoundTrip ==
  \A s \in Created :
    SimulatedFor(s) => RoundTrip(frame[Host].cb, registeredTools[s][frame[Host].cb.name])

\* C14, amended: the same while t's registration is the one the
\* process-wide registry holds for the name (no other session registered
\* the name or cleared it since), for arguments that t's ValidateArguments
\* accepts (when t has one) and for a content and an error that are valid
\* UTF-8.
C14_RoundTripValid ==
  \A s \in Created :
    LET c == frame[Host].cb
        t == registeredTools[s][c.name]
        dec == DecodeArgs(c.argsJSON)
        o == Execute(t, dec.args, c.out)
    IN (/\ SimulatedFor(s)
        /\ Registered(c) = t
        /\ IsValidatedTool(t) => ValidateArguments(t, dec.args).kind = "nil"
        /\ ValidUTF8(o.result.content) /\ ValidUTF8(o.result.error))
       => RoundTrip(c, t)

\* the calculator, registered as 'calculate', answered "2+2" with "4.00"
C14_Witness ==
  \E s \in Created :
    /\ SimulatedFor(s)
    /\ frame[Host].cb.name = "calculate"
    /\ registeredTools[s]["calculate"] = 1
    /\ frame[Host].cb.argsJSON = "{\"arguments\":\"2+2\"}"
    /\ Unmarshal(frame[Host].cb.reply.json) = ToolResult(<<"4.00">>, <<>>)

\* C20: no buffer that crosses the boundary is freed by another allocator
\* than the one it came from: what the native side allocated (strdup) is
\* given to libc's free, and what the host allocated (cString) never is.
C20_AllocatorsMatch ==
  \A t \in Threads :
    \A f \in frame[t].frees :
      /\ f.by = "strdup" => f.with = "free"
      /\ f.by = "cString" => f.with # "free"

\* the first search path that exists on disk fs, "" when none does
FirstExisting(fs) ==
  LET hits == {i \in 1..Len(searchPaths) : FileOf(searchPaths[i]) \in fs.present}
  IN IF hits = {} THEN ""
     ELSE searchPaths[CHOOSE i \in hits : \A j \in hits : i <= j]

\* C19: the locator returns the first of the four search paths that exists;
\* when none exists it uses the temporary path and writes the library there
\* only if no file is there; a repeated call on an unchanged disk returns the
\* same path and writes nothing; a failed write gives the empty path, and
\* initialization then ends with an error, not with a crash.
C19_Locator ==
  \A i \in 1..Len(located) :
    LET c == located[i] IN
    /\ FirstExisting(c.before) # "" => c.path = FirstExisting(c.before) /\ ~c.wrote
    /\ FirstExisting(c.before) = "" =>
         /\ c.path \in {TempPath, ""}
         /\ c.before.temp # "absent" => c.path = TempPath /\ ~c.wrote
         /\ c.path = "" => c.before.room # "enough"
    /\ (i > 1 /\ ~c.changed) => c.path = located[i - 1].path /\ ~c.wrote
    /\ (i = 1 /\ c.path = "") => ~shimInitialized /\ shimInitError # "nil" /\ ~crashed

\* C21: accesses to the process-wide registry are synchronized: no lookup
\* made by the tool callback takes place while another thread is inside the
\* registry writes of RegisterTool or ClearTools.
C21_Synchronized ==
  [][\A t \in Threads :
       frame'[t].ncb = frame[t].ncb + 1 => frame[Host].pc # "writing"]_vars

\* C22: the tool callback is handed to the native side exactly once in a
\* process whose initialization succeeds and never in one whose
\* initialization fails: SetToolCallback is invoked only by initialization,
\* with every item of the load order resolved and no session created yet,
\* and by no later call.
C22_CallbackSetOnce ==
  [][/\ setToolCallbackCalls' = (IF shimInitialized' THEN 1 ELSE 0)
     /\ setToolCallbackCalls' # setToolCallbackCalls =>
           /\ boot = "boot" /\ boot' = "ready"
           /\ resolved' = LoadItems
           /\ nSessions = 0 /\ nSessions' = 0]_vars

\* after a successful initialization a session was created, got a tool and
\* answered a prompt, and the callback has been handed over once
C22_Witness ==
  /\ shimInitialized
  /\ setToolCallbackCalls = 1
  /\ toolOps > 0
  /\ \E s \in Created : ptr[s] # NULL /\ callLog[s] # <<>>

\* C23: in the shim's session wrapper a cached native session, whenever
\* there is one, was built from the wrapper's current tool list.
C23_CacheCurrent ==
  \A h \in Slots : wSession[h].built => wSession[h].tools = wTools[h]

\* how often name n stands in list q
Occurrences(q, n) == Cardinality({i \in 1..Len(q) : q[i] = n})

\* C24: registering a name again on a session changes nothing: the
\* native-side tool list of a session holds each name at most once, however
\* often RegisterTool was called with it, like the host-side tool set.
C24_RegisteredOnce ==
  \A h \in Slots : \A n \in ToolNames : Occurrences(wTools[h], n) <= 1

\* the Tasks of streaming calls: the threads that are in one
Streaming == {h \in Helpers : frame[h].op = "RespondWithStreaming"}

\* C25: a streaming call invokes the per-chunk callback at least once and
\* its last invocation carries the empty chunk, when the generation
\* succeeds and when it fails, and the call does not return to the host
\* before that last invocation.
C25_StreamEnds ==
  \A h \in Streaming :
    /\ frame[h].pc = "streamed" =>
          /\ Len(frame[h].chunks) >= 1
          /\ frame[h].chunks[Len(frame[h].chunks)] = 0
    /\ frame[h].pc # "streamed" =>
          ~(frame[Host].op = "RespondWithStreaming" /\ frame[Host].pc = "done")

\* C26: the send of a helper goroutine on its result channel never blocks:
\* whenever a helper has finished its respond call and is about to send,
\* the send can take place, whether the caller still waits or has returned
\* with the context's error; after it the goroutine is over.
C26_SendNeverBlocks ==
  \A h \in Helpers :
    (~crashed /\ frame[h].pc = "send") => ENABLED HelperSend(h)

\* the caller has returned with the context's error, and its helper, whose
\* native call returned a response, is about to send
C26_Witness ==
  \E h \in Helpers :
    /\ h \in abandoned
    /\ frame[h].pc = "send"
    /\ frame[h].ret.kind = "response"
    /\ frame[Host].pc = "idle"

\* C27: a call that returned the context's error still changes the session:
\* when its abandoned native call completes with a response, the helper
\* adds the prompt's estimate and then the response's estimate to the
\* session's contextSize (each to the value it read, which is the current
\* one when no other call wrote it meanwhile), although the response is
\* dropped: the result channel stays empty.
C27_AbandonedCallAdvances ==
  [][\A h \in Helpers :
       (h \in abandoned /\ frame[h].tmp = contextSize[frame[h].sess]) =>
         /\ (frame[h].pc = "storePrompt" /\ frame'[h].pc = "loadResponse") =>
               contextSize'[frame[h].sess] =
                 contextSize[frame[h].sess] + estimateTokens(frame[h].plen)
         /\ (frame[h].pc = "storeResponse" /\ frame'[h].pc = "send") =>
               /\ contextSize'[frame[h].sess] =
                    contextSize[frame[h].sess] + estimateTokens(frame[h].rlen)
               /\ chan'[h] = EmptyChan
               /\ h \in abandoned']_vars

\* no call of the host is in progress, the only call made on the session
\* returned the context's error, and its helper has raised contextSize from
\* 0 to the estimates of a 16384-byte prompt and the response
C27_Witness ==
  \E h \in Helpers :
    /\ frame[Host].pc = "idle"
    /\ h \in abandoned
    /\ frame[h].pc = "send"
    /\ frame[h].ret.kind = "response"
    /\ frame[h].sess \in cancelledOn
    /\ nativeStarted = 1
    /\ systemInstructions[frame[h].sess] = 0
    /\ contextSize[frame[h].sess] =
         estimateTokens(16384) + estimateTokens(frame[h].ret.len)
    /\ contextSize[frame[h].sess] > 0

\* the names GetRegisteredTools (fm.go:508-514) lists for session s
GetRegisteredTools(s) == {n \in ToolNames : registeredTools[s][n] # NoTool}

\* C28: when session A's ClearTools returns, every name that A and another
\* session B had both registered is gone from the process-wide registry, so
\* that a callback for it, whatever its arguments, reports the tool as not
\* found, while B lists the name as before and B's native-side tool list is
\* what it was.
C28_ClearRemovesShared ==
  [][Clears =>
       LET a == frame'[Host].sess IN
       \A b \in Created \ {a} :
         \A n \in GetRegisteredTools(a) \cap GetRegisteredTools(b) :
           /\ \A argsJSON \in ArgsDocs, out \in Outcomes :
                 LET r == executeTool(toolRegistry', n, argsJSON, out) IN
                 /\ r.executed = 0
                 /\ Unmarshal(r.json) = ToolResult(<<>>, <<"tool '", n, "' not found">>)
           /\ n \in {x \in ToolNames : registeredTools'[b][x] # NoTool}
           /\ registeredTools'[b] = registeredTools[b]
           /\ (ptr[b] # NULL /\ ptr[b] # ptr[a]) => wTools'[ptr[b]] = wTools[ptr[b]]]_vars

\* sessions 1 and 2 registered 'calculate', session 1 has just cleared its
\* tools: the registry has no 'calculate', session 2 lists it and its
\* native-side list holds it
C28_Witness ==
  /\ frame[Host].pc = "done" /\ frame[Host].op = "ClearTools" /\ frame[Host].sess = 1
  /\ frame[Host].ret.kind = "nil"
  /\ ptr[2] # NULL
  /\ toolRegistry["calculate"] = NoTool
  /\ GetRegisteredTools(1) = {}
  /\ "calculate" \in GetRegisteredTools(2)
  /\ wTools[ptr[2]] = <<"calculate">>

\* C29: when the shim's RegisterTool reports failure on a valid session,
\* RegisterTool returns an error and takes nothing back: the tool is in the
\* session's tool set and in the process-wide registry, in the place of any
\* earlier tool of that name, and a callback for the name resolves to it and
\* runs its Execute (once the arguments decode and pass the tool's own
\* validation, as for any registered tool).
C29_NoRollback ==
  [][(Registers /\ frame'[Host].ret.kind = "err_native") =>
       LET f == frame'[Host] IN
       /\ registeredTools'[f.sess][f.name] = f.impl
       /\ toolRegistry'[f.name] = f.impl
       /\ wTools' = wTools
       /\ \A argsJSON \in ArgsDocs, out \in Outcomes :
             LET r == executeTool(toolRegistry', f.name, argsJSON, out)
                 dec == DecodeArgs(argsJSON)
             IN /\ r.tool = f.impl
                /\ r.executed = 1 <=>
                      /\ dec.ok
                      /\ IsValidatedTool(f.impl) =>
                            ValidateArguments(f.impl, dec.args).kind = "nil"]_vars

\* the one registration made, of the calculator, failed in the shim, whose
\* list for the session is empty; the callback for 'calculate' made after
\* it ran the calculator
C29_Witness ==
  \E s \in Created :
    /\ ptr[s] # NULL
    /\ toolOps = 1
    /\ wTools[ptr[s]] = <<>>
    /\ registeredTools[s]["calculate"] = 1
    /\ frame[Host].pc = "done" /\ frame[Host].op = "executeTool"
    /\ frame[Host].cb.name = "calculate"
    /\ frame[Host].cb.argsJSON = "{\"arguments\":\"7/2\"}"
    /\ frame[Host].cb.reply.tool = 1
    /\ frame[Host].cb.reply.executed = 1
    /\ Unmarshal(frame[Host].cb.reply.json) = ToolResult(<<"3.50">>, <<>>)

\* C30: Release leaves the process-wide registry and the sessions' tool
\* sets as they are, so that a callback for a name resolves after the
\* release to what it resolved to before; the registry changes only in a
\* RegisterTool call (RefreshSession makes such calls for the new session)
\* and in a ClearTools call.
C30_ReleaseKeepsRegistry ==
  [][/\ (frame'[Host].op = "Release" /\ frame'[Host] # frame[Host]) =>
          /\ toolRegistry' = toolRegistry
          /\ registeredTools' = registeredTools
          /\ \A n \in ToolNames : Lookup(toolRegistry', n) = Lookup(toolRegistry, n)
     /\ toolRegistry' # toolRegistry =>
          frame'[Host].op \in {"RegisterTool", "ClearTools", "RefreshSession"}]_vars

\* session 1 registered the calculator and has been released: its handle is
\* gone, and a callback for 'calculate' still resolves to the calculator
C30_Witness ==
  /\ frame[Host].pc = "done" /\ frame[Host].op = "Release" /\ frame[Host].sess = 1
  /\ ptr[1] = NULL
  /\ relCount[1] = 1
  /\ registeredTools[1]["calculate"] = 1
  /\ toolRegistry["calculate"] = 1
  /\ Lookup(toolRegistry, "calculate").tool = 1

====
